---- MODULE Spec2Model ----
(***************************************************************************)
(* PowerGrid: the viewport windowing and incremental patch engine.         *)
(*                                                                         *)
(* The grid materializes row nodes for the half-open index range           *)
(* viewport = {begin, end} of a data source and patches them on scroll     *)
(* and on rowsadded / rowsremoved events.                                  *)
(*                                                                         *)
(* The rendering surface is modelled as the list of row nodes of one part  *)
(* of the scrolling row group, in document order (the left, middle and     *)
(* right parts receive the same operations).  Queries on the surface are   *)
(* modelled by what they select: a positional slice of the child rows.     *)
(* Arithmetic of the grid's own code is modelled by what JavaScript        *)
(* computes.                                                               *)
(***************************************************************************)
EXTENDS Integers, Sequences, FiniteSets, TLC

VARIABLES
    options,            \* [frozenRowsTop, frozenRowsBottom, virtualScrollingExcess]
    dsRows,             \* the data source's records (their ids), in order
    recordCount,        \* this.recordCount
    workingSet,         \* this.workingSet: per index the id of the record of the entry,
                        \* 0 = no entry, negative = an entry whose record is not set
    viewport,           \* this.viewport: [begin, end]
    rows,               \* row nodes of the scrolling group: [idx, id], id 0 = no
                        \* data-row-id, negative = none yet, a fetch will populate it
    renderQueue,        \* this.renderQueue: NoQueue or the open batch
    created,            \* index tags of the nodes created by the last operation
    destroyed,          \* index tags (at removal) of the nodes removed by the last operation
    disposed,           \* the disposal hooks the last operation invoked for one part of
                        \* the group, in order: the hook, the ids it was handed, the
                        \* ids of the nodes that left the part
    lastOp,             \* the last operation on the grid: its name, how its range lay
                        \* relative to the viewport, the range's length, whether it threw
    events,             \* number of rowsadded / rowsremoved events emitted so far
    view,               \* the last call of rowsInView: its arguments and its result
    frames,             \* flushes scheduled by queueRenderUpdate and not yet run
    flushed,            \* what the last operation ran, when it was a flush: the
                        \* operations, then the callbacks, in the order they ran
    asked,              \* the temporary arguments of the queueAdjustColumnPositions
                        \* calls made since the last batch was opened
    asynchronous,       \* the data source answers recordCount and getData with promises
    generation,         \* number of SubscriptionQueues created: this.dataSubscriptions
                        \* is the last one, every earlier one is cancelled
    pending,            \* promises not yet settled and scheduled frames: the
                        \* recordCount of a renderData, the data of a getData, the
                        \* renderData a dataloaded event has scheduled
    tree,               \* a SyncTreeGridDataSource: its expandedById, its view and
                        \* the last method called on it
    scroller,           \* the scroller: its scrollTop, the timer of the debounced
                        \* updateViewport, the frames of the two passes of
                        \* updateViewportImmediate that are due
    summarizing,        \* a SummarizingDataSource: the rows of its delegate, the
                        \* events it has passed on, the last getData call, and the
                        \* record count a listener of its events holds
    arrayDataSource     \* an ArrayDataSource: its data, its ready flag, the timer
                        \* of its delayed load and the last call made on it

vars == <<options, dsRows, recordCount, workingSet, viewport, rows, renderQueue,
          created, destroyed, disposed, lastOp, events, view, frames, flushed, asked,
          asynchronous, generation, pending, tree, scroller, summarizing,
          arrayDataSource>>

----------------------------------------------------------------------------
(* Bounds of the model *)

\* number of records of the data source when renderData completes
InitRecords == 3
\* the records the data source may show are 1..MaxId
MaxId == 4
\* height of the scroll area in pixels (getScrollAreaSize().height)
AreaHeight == 31
\* callbacks one batch may hold before it is flushed
MaxCallbacks == 1
\* callbacks one batch may hold when the requests are made one by one
MaxQueued == 3
\* promises and frames that may be outstanding at once
MaxPending == 2
\* rowsadded / rowsremoved events the data source emits in one run
MaxEvents == 2

\* values getScrollPosition().top may return: the scroller is moved by the user
\* between any two operations of the grid
ScrollTops == {0, 62, 93}

\* option sets the grid is constructed with
FrozenTops == {0, 1}
FrozenBottoms == {0, 1}
Excesses == {0, 1}

(* Program constants *)
rowHeightOption == 31

----------------------------------------------------------------------------
(* JavaScript helpers *)

Min(a, b) == IF a < b THEN a ELSE b
Max(a, b) == IF a > b THEN a ELSE b

\* Array.prototype.slice's relative index: negative counts from the end, clamped
RelIndex(k, len) == IF k < 0 THEN Max(len + k, 0) ELSE Min(k, len)

\* s.slice(from, to)
Slice(s, from, to) == SubSeq(s, RelIndex(from, Len(s)) + 1, RelIndex(to, Len(s)))

\* s.slice(from)
SliceFrom(s, from) == SubSeq(s, RelIndex(from, Len(s)) + 1, Len(s))

\* ToIntegerOrInfinity(NaN): what slice receives for `start - this.viewport`
\* (a number minus an object is NaN)
NumberMinusObject == 0

\* a run of n holes / of the integers from..to-1
Holes(n) == [i \in 1..n |-> 0]
Range(from, to) == [i \in 1..(to - from) |-> from + i - 1]

\* utils.overlap(a, b): the half-open ranges share a row
overlap(a, b) == a.begin < b.end /\ b.begin < a.end

----------------------------------------------------------------------------
(* Geometry *)

\* rowHeight(start, end): cumulative height of rows [start, end)
rowHeight(start, end) == (end - start) * rowHeightOption

\* rowsInView(top, bottom, start, end)
rowsInView(top, bottom, start, end, rc, frozenTop) ==
    LET s == start
        l == IF end = 0 THEN rc ELSE end
        ct(x) == (x - s + 1) * rowHeightOption
        hits == {x \in s..(l - 1) : ct(x) >= top}
    IN  IF hits = {}
        THEN [begin |-> 0, end |-> 0]
        ELSE LET begin == CHOOSE x \in hits : \A y \in hits : x <= y
                 over == {x \in (begin + 1)..(l - 1) : ct(x) > bottom}
                 stop == IF over = {} THEN l
                         ELSE CHOOSE x \in over : \A y \in over : x <= y
             IN  [begin |-> begin - ((begin % 2) - (frozenTop % 2)), end |-> stop]

\* rowsInView(sPos.top, sPos.top + sArea.height, start, end) as viewRange and
\* updateViewportImmediate call it; top is getScrollPosition().top
visibleRows(g, top) ==
    rowsInView(top, top + AreaHeight, options.frozenRowsTop,
               g.recordCount - options.frozenRowsBottom, g.recordCount,
               options.frozenRowsTop)

\* viewRange(): the range of rows that should be rendered
viewRange(g, top) ==
    LET start == options.frozenRowsTop
        end == g.recordCount - options.frozenRowsBottom
        range == visibleRows(g, top)
        begin == Max(start, range.begin - options.virtualScrollingExcess)
    IN  [begin |-> begin - (begin % 2),
         end |-> Min(end, range.end + options.virtualScrollingExcess)]

----------------------------------------------------------------------------
(* The grid object, as the record the methods below transform.  A method   *)
(* that throws leaves the record as it was at the throw, with threw set;   *)
(* every later statement of the handler is skipped.                        *)

Grid ==
    [ds |-> dsRows, recordCount |-> recordCount, workingSet |-> workingSet,
     viewport |-> viewport, rows |-> rows, created |-> <<>>, destroyed |-> <<>>,
     disposed |-> <<>>, threw |-> FALSE, async |-> asynchronous, generation |-> generation,
     pending |-> pending]

\* the grid when its data source has just changed to show the records ds
GridOn(ds) == [Grid EXCEPT !.ds = ds]

Throw(g) == [g EXCEPT !.threw = TRUE]

\* const v = x; F(v): the value x is computed once and named
With(x, F(_)) == CHOOSE r \in {F(v) : v \in {x}} : TRUE

\* dataSource.getData(start, end): view.slice(start || 0, end)
dataSourceGetData(g, start, end) == Slice(g.ds, start, end)

\* An entry of the working set whose record is not set, and a row node that has
\* no data-row-id yet: the object made for offset off of the range of fetch k.
\* Fetch 0 is no fetch: the record, or the id, will never be set
Stride == MaxId + 1
Entry(k, off) == 0 - (k * Stride + off + 1)
EmptyEntry == Entry(0, 0)
FetchOf(e) == (0 - e - 1) \div Stride
OffsetOf(e) == (0 - e - 1) % Stride

\* the promise of an asynchronous getData(start, end), number k: it will resolve
\* with the rows the data source shows now
Fetch(g, k, start, end) ==
    [kind |-> "getData", no |-> k, gen |-> g.generation, start |-> start, end |-> end,
     data |-> dataSourceGetData(g, start, end)]

\* the number of the next promise: the least one no outstanding promise bears
FreeFetch(g) ==
    CHOOSE k \in 1..(Cardinality(g.pending) + 1) : \A p \in g.pending : p.no # k

\* getData(start, end): fetch and record the rows in the working set.  With a
\* promise the entries are made now and their records set when it resolves
getData(g, start, end) ==
    LET data == dataSourceGetData(g, start, end)
        len == Max(Len(g.workingSet), end)
        k == FreeFetch(g)
        ws == [i \in 1..len |->
                 IF i - 1 >= start /\ i - 1 < end
                 THEN (IF g.async THEN Entry(k, i - 1 - start)
                       ELSE IF i - start <= Len(data) THEN data[i - start]
                       ELSE EmptyEntry)
                 ELSE (IF i <= Len(g.workingSet) THEN g.workingSet[i] ELSE 0)]
    IN  IF g.async
        THEN [g EXCEPT !.workingSet = IF end > start THEN ws ELSE g.workingSet,
                       !.pending = g.pending \cup {Fetch(g, k, start, end)}]
        ELSE IF end > start THEN [g EXCEPT !.workingSet = ws] ELSE g

\* the rows populateRows fills: the part of [start, end) inside the live viewport
populateRange(g, start, end) ==
    IF end <= options.frozenRowsTop \/ start >= g.recordCount - options.frozenRowsBottom
    THEN [begin |-> start, end |-> end]
    ELSE [begin |-> Max(start, g.viewport.begin), end |-> Min(end, g.viewport.end)]

\* the fragment renderRowGroupContents builds for [start, end) and attaches
attachRows(g, awaited, start, end, prepend, hasIndex, atIndex) ==
    LET data == dataSourceGetData(g, start, end)
        pr == populateRange(g, start, end)
        missing == ~g.async /\ \E x \in pr.begin..(pr.end - 1) : x - start + 1 > Len(data)
        shells == [i \in 1..(end - start) |->
                     LET x == start + i - 1
                     IN  [idx |-> x,
                          id |-> IF g.async THEN Entry(awaited, i - 1)
                                 ELSE IF x >= pr.begin /\ x < pr.end /\ i <= Len(data)
                                 THEN data[i] ELSE 0]]
        n == Len(g.rows)
        \* with atIndex, no row at that position: nothing is attached
        found == ~hasIndex \/ (atIndex >= 0 /\ atIndex < n)
        attached ==
            IF ~hasIndex
            THEN (IF prepend THEN shells \o g.rows ELSE g.rows \o shells)
            ELSE IF prepend
                 THEN SubSeq(g.rows, 1, atIndex) \o shells \o SubSeq(g.rows, atIndex + 1, n)
                 ELSE SubSeq(g.rows, 1, atIndex + 1) \o shells \o SubSeq(g.rows, atIndex + 2, n)
    IN  IF missing
        THEN Throw(g)                   \* record.id of undefined: TypeError
        ELSE IF found
        THEN [g EXCEPT !.rows = attached,
                       !.created = g.created \o [i \in 1..(end - start) |-> start + i - 1]]
        ELSE g

\* renderRowGroupContents(start, end, scrollinggroup, prepend, atIndex)
\* hasIndex is FALSE when atIndex is undefined
renderRowGroupContents(g, start, end, prepend, hasIndex, atIndex) ==
    IF end < start
    THEN Throw(g)                       \* new Array(end - start): RangeError
    ELSE With(getData(g, Max(start, 0), end),
              LAMBDA g1 : attachRows(g1, FreeFetch(g), start, end, prepend,
                                     hasIndex, atIndex))

\* getIdsFromRows(rows): the data-row-id of every node, 0 when it carries none
Ids(r) == [i \in 1..Len(r) |-> Max(r[i].id, 0)]

\* a disposal hook is invoked with ids; the nodes gone have left the part
Hook(name, ids, gone) == [hook |-> name, ids |-> ids, gone |-> Ids(gone)]

\* destroyRows(rows) on the child rows at positions from+1..to of every part
destroyRows(g, from, to) ==
    LET n == Len(g.rows)
        gone == SubSeq(g.rows, from + 1, to)
    IN  [g EXCEPT !.rows = SubSeq(g.rows, 1, from) \o SubSeq(g.rows, to + 1, n),
                  !.destroyed = g.destroyed \o [i \in 1..Len(gone) |-> gone[i].idx],
                  !.disposed = Append(g.disposed, Hook("rowsDisposed", Ids(gone), gone))]

\* allParts.forEach(empty); this.allRowsDisposed()
emptyAll(g) ==
    [g EXCEPT !.rows = <<>>,
              !.destroyed = g.destroyed \o [i \in 1..Len(g.rows) |-> g.rows[i].idx],
              !.disposed = Append(g.disposed, Hook("allRowsDisposed", <<>>, g.rows))]

\* verify(): reads workingSet[viewport.begin + r].record for every row when the
\* row count matches; it throws when that entry is undefined
verify(g) ==
    LET n == Len(g.rows)
        undefinedEntry(i) == i < 0 \/ i >= Len(g.workingSet) \/ g.workingSet[i + 1] = 0
    IN  IF n = g.viewport.end - g.viewport.begin
           /\ \E r \in 0..(n - 1) : undefinedEntry(g.viewport.begin + r)
        THEN Throw(g)
        ELSE g

\* a statement of a handler: skipped once an earlier one has thrown
Then(g, F(_)) == IF g.threw THEN g ELSE F(g)

\* the rows setViewport adds or removes at the beginning of the viewport
patchBegin(g, range, previousViewport) ==
    IF range.begin < previousViewport.begin
    THEN renderRowGroupContents(g, Max(options.frozenRowsTop, range.begin),
             Min(range.end, previousViewport.begin), TRUE, FALSE, 0)
    ELSE IF range.begin > previousViewport.begin
    THEN destroyRows(g, 0, RelIndex(range.begin - previousViewport.begin, Len(g.rows)))
    ELSE g

\* the rows setViewport adds or removes at the end of the viewport
patchEnd(g, range, previousViewport) ==
    IF range.end < previousViewport.end /\ range.end > previousViewport.begin
    THEN destroyRows(g, RelIndex(range.end - range.begin, Len(g.rows)), Len(g.rows))
    ELSE IF range.end > previousViewport.end
    THEN renderRowGroupContents(g, Max(previousViewport.end, range.begin),
             Min(range.end, g.recordCount - options.frozenRowsBottom), FALSE, FALSE, 0)
    ELSE g

\* setViewport without overlap: clear the entire thing and rebuild
rebuild(g, range) ==
    LET scrollingStart == Max(options.frozenRowsTop, range.begin)
        scrollingEnd == Min(range.end, g.recordCount - options.frozenRowsBottom)
    IN  IF scrollingEnd > scrollingStart
        THEN renderRowGroupContents(g, scrollingStart, scrollingEnd, FALSE, FALSE, 0)
        ELSE g

\* a setViewport that clears and rebuilds whatever the range
setViewport_AlwaysRebuild(g, range) ==
    With([g EXCEPT !.viewport = range], LAMBDA g0 :
        With(emptyAll(g0), LAMBDA g1 :
        With(rebuild(g1, range), LAMBDA g2 : Then(g2, verify))))

\* setViewport(range).  this.previousViewport is never assigned, so the patch
\* runs whatever the range
setViewport(g, range) ==
    With([g EXCEPT !.viewport = range], LAMBDA g0 :
        IF overlap(range, g.viewport)
        THEN With(patchBegin(g0, range, g.viewport), LAMBDA g1 :
             Then(g1, LAMBDA a :
             With(patchEnd(a, range, g.viewport), LAMBDA g2 : Then(g2, verify))))
        ELSE With(emptyAll(g0), LAMBDA g1 :
             With(rebuild(g1, range), LAMBDA g2 : Then(g2, verify))))

\* rowsInViewWithExcess of updateViewportImmediate: the visible rows and the
\* excess rows on both sides, each end clamped on its own
rowsInViewWithExcess(g, top) ==
    LET start == options.frozenRowsTop
        end == g.recordCount - options.frozenRowsBottom
        inView == visibleRows(g, top)
    IN  [begin |-> Max(start, inView.begin - options.virtualScrollingExcess),
         end |-> Min(end, inView.end + options.virtualScrollingExcess)]

\* the union of the current viewport with the visible rows
unionRange(g, top) ==
    [begin |-> Min(visibleRows(g, top).begin, g.viewport.begin),
     end |-> Max(visibleRows(g, top).end, g.viewport.end)]

\* a first pass that drops the current viewport whatever the visible rows
targetRange_AlwaysReplace(g, renderExcess, top) ==
    IF ~renderExcess THEN visibleRows(g, top) ELSE rowsInViewWithExcess(g, top)

\* a first pass that keeps the current viewport whatever the visible rows
targetRange_AlwaysUnion(g, renderExcess, top) ==
    IF ~renderExcess THEN unionRange(g, top) ELSE rowsInViewWithExcess(g, top)

\* the range updateViewportImmediate(renderExcess) hands to setViewport
targetRange(g, renderExcess, top) ==
    IF ~renderExcess
    THEN IF overlap(g.viewport, rowsInViewWithExcess(g, top))
         THEN unionRange(g, top)
         ELSE visibleRows(g, top)
    ELSE rowsInViewWithExcess(g, top)

\* updateViewportImmediate(renderExcess), up to the scheduling of phase 2
updateViewportImmediate(g, renderExcess, top) ==
    With(targetRange(g, renderExcess, top), LAMBDA range : setViewport(g, range))

\* _incrementRowIndexes(start, offset) on the rows of the scrolling group
_incrementRowIndexes(g, start, offset) ==
    [g EXCEPT !.rows = [i \in 1..Len(g.rows) |->
        IF g.rows[i].idx >= start
        THEN [g.rows[i] EXCEPT !.idx = g.rows[i].idx + offset]
        ELSE g.rows[i]]]

\* workingSet.splice(start, count)
splice(ws, start, count) ==
    LET from == RelIndex(start, Len(ws))
        n == Min(Max(count, 0), Len(ws) - from)
    IN  SubSeq(ws, 1, from) \o SubSeq(ws, from + n + 1, Len(ws))

\* the child rows _removeRows hands to destroyRows, as positions from+1..to
removedChildren(g, start, end) ==
    LET n == Len(g.rows)
        \* children.slice(0, end - this.viewport.begin)
        to1 == IF end < g.viewport.end THEN RelIndex(end - g.viewport.begin, n) ELSE n
        \* children.slice(start - this.viewport)
        from2 == IF start > g.viewport.begin THEN RelIndex(NumberMinusObject, to1) ELSE 0
    IN  [from |-> from2, to |-> to1]

\* _removeRows: the deleted block overlaps the viewport
removeOverlap(g, start, end) ==
    LET vp == g.viewport
        begin == IF start < vp.begin THEN start ELSE vp.begin
        shrunk == [begin |-> begin,
                   end |-> IF end >= vp.end THEN Max(start, begin)
                           ELSE vp.end - (end - start)]
    IN  With(removedChildren(g, start, end), LAMBDA sel :
        With(destroyRows(g, sel.from, sel.to), LAMBDA g2 :
        With(IF end < vp.end THEN _incrementRowIndexes(g2, start, start - end) ELSE g2,
             LAMBDA g3 : verify([g3 EXCEPT !.viewport = shrunk]))))

\* a removeBefore that moves the viewport and leaves the index tags as they were
removeBefore_KeepTags(g, start, end) ==
    verify([g EXCEPT !.viewport = [begin |-> g.viewport.begin - (end - start),
                                   end |-> g.viewport.end - (end - start)]])

\* _removeRows: the deleted block comes before the viewport
removeBefore(g, start, end) ==
    With([g EXCEPT !.viewport = [begin |-> g.viewport.begin - (end - start),
                                 end |-> g.viewport.end - (end - start)]],
         LAMBDA g2 : With(_incrementRowIndexes(g2, start, start - end), verify))

\* a _removeRows that adjusts recordCount before it checks the range
_removeRows_CountFirst(g, start, end) ==
    With([g EXCEPT !.recordCount = g.recordCount - (end - start)], LAMBDA g1 :
        IF end > g.recordCount \/ end < start
        THEN Throw(g1)
        ELSE With([g1 EXCEPT !.workingSet = splice(g.workingSet, start, end - start)],
                  LAMBDA g2 :
                      IF end <= g2.viewport.begin
                      THEN removeBefore(g2, start, end)
                      ELSE IF end > g2.viewport.begin /\ start < g2.viewport.end
                      THEN removeOverlap(g2, start, end)
                      ELSE verify(g2)))

\* _removeRows(start, end)
_removeRows(g, start, end) ==
    IF end > g.recordCount \/ end < start
    THEN Throw(g)                       \* throw "Index mismatch"
    ELSE With([g EXCEPT !.recordCount = g.recordCount - (end - start),
                        !.workingSet = splice(g.workingSet, start, end - start)],
              LAMBDA g1 :
                  IF end <= g1.viewport.begin
                  THEN removeBefore(g1, start, end)
                  ELSE IF end > g1.viewport.begin /\ start < g1.viewport.end
                  THEN removeOverlap(g1, start, end)
                  ELSE verify(g1))

\* _addRows: the new rows are within the current viewport
addOverlap(g, start, end, top) ==
    LET vp == g.viewport
        renderStart == Max(vp.begin, start)
        startIndexForDeletion == renderStart - vp.begin
    IN  With(Min(Max(viewRange(g, top).end, vp.end), end), LAMBDA renderEnd :
        With(IF renderEnd # renderStart + end - start
             THEN [destroyRows(g, Min(startIndexForDeletion, Len(g.rows)), Len(g.rows))
                      EXCEPT !.viewport = [begin |-> vp.begin, end |-> renderStart]]
             ELSE g, LAMBDA g2 :
        With(_incrementRowIndexes(g2, start, end - start), LAMBDA g3 :
        With([g3 EXCEPT !.viewport.end = g3.viewport.end + (renderEnd - renderStart)],
             LAMBDA g4 :
        With(IF renderEnd = g4.viewport.end
             THEN renderRowGroupContents(g4, renderStart, renderEnd, FALSE, FALSE, 0)
             ELSE renderRowGroupContents(g4, renderStart, renderEnd, TRUE, TRUE,
                                         renderStart - g4.viewport.begin),
             LAMBDA g5 : Then(g5, verify))))))

\* _addRows: the new rows are inserted before the current viewport
addBefore(g, start, end) ==
    With([g EXCEPT !.viewport = [begin |-> g.viewport.begin + (end - start),
                                 end |-> g.viewport.end + (end - start)]],
         LAMBDA g2 : With(_incrementRowIndexes(g2, start, end - start), verify))

\* _addRows(start, end)
_addRows(g, start, end, top) ==
    IF start > g.recordCount
    THEN Throw(g)                       \* throw "Index mismatch"
    ELSE With([g EXCEPT !.recordCount = g.recordCount + (end - start),
                        !.workingSet = Slice(g.workingSet, 0, start) \o Holes(end - start)
                                       \o SliceFrom(g.workingSet, start)],
              LAMBDA g1 :
                  IF end >= g1.viewport.begin /\ start < g1.viewport.end
                  THEN addOverlap(g1, start, end, top)
                  ELSE IF end < g1.viewport.begin
                  THEN addBefore(g1, start, end)
                  ELSE verify(g1))

----------------------------------------------------------------------------
(* Promises: the data subscription queue, renderData and the callbacks of    *)
(* getData                                                                   *)

\* a SubscriptionQueue that runs the wrapped callback whatever happened since
wrappedRuns_Always(g, p) == TRUE

\* dataSubscriptions.queue(callback), invoked: the callback runs when the queue
\* that wrapped it has not been cancelled, that is, when it is still
\* this.dataSubscriptions
wrappedRuns(g, p) == p.gen = g.generation

\* resetDataSubscriptions(): cancel the queue and create a new one
resetDataSubscriptions(g) == [g EXCEPT !.generation = g.generation + 1]

\* processData(result) of getData: sets the record of the entries made for the
\* fetch, wherever they are in the working set by now
processData(g, p) ==
    [g EXCEPT !.workingSet = [i \in 1..Len(g.workingSet) |->
        IF g.workingSet[i] < 0 /\ FetchOf(g.workingSet[i]) = p.no
        THEN (IF OffsetOf(g.workingSet[i]) < Len(p.data)
              THEN p.data[OffsetOf(g.workingSet[i]) + 1]
              ELSE EmptyEntry)
        ELSE g.workingSet[i]]]

\* the row nodes made for the fetch p: the rows array populateRows closes over
Awaiting(g, p) == {i \in 1..Len(g.rows) : g.rows[i].id < 0 /\ FetchOf(g.rows[i].id) = p.no}

\* the index populateRows knows the node by: the one it was created at
CreatedAt(r, p) == p.start + OffsetOf(r.id)

\* populateRows(dataSubset), run when the promise resolves: the nodes created at
\* the indices of [start, end) inside the viewport of now get their data-row-id;
\* a missing record ends the loop (TypeError, logged by the catch)
populateRows(g, p) ==
    [g EXCEPT !.rows = [i \in 1..Len(g.rows) |->
        IF i \in Awaiting(g, p)
        THEN [g.rows[i] EXCEPT !.id =
                 IF /\ CreatedAt(g.rows[i], p) >= populateRange(g, p.start, p.end).begin
                    /\ CreatedAt(g.rows[i], p) < populateRange(g, p.start, p.end).end
                    /\ OffsetOf(g.rows[i].id) < Len(p.data)
                 THEN p.data[OffsetOf(g.rows[i].id) + 1]
                 ELSE 0]
        ELSE g.rows[i]]]

\* the wrapped populateRows is not run: its nodes keep no data-row-id
dropped(g, p) ==
    [g EXCEPT !.rows = [i \in 1..Len(g.rows) |->
        IF i \in Awaiting(g, p) THEN [g.rows[i] EXCEPT !.id = 0] ELSE g.rows[i]]]

\* the promise of getData settles: processData, then the wrapped populateRows
getDataResolved(g, p) ==
    With(processData([g EXCEPT !.pending = g.pending \ {p}], p), LAMBDA g1 :
        IF wrappedRuns(g, p) THEN populateRows(g1, p) ELSE dropped(g1, p))

\* a rejection handler that also takes the shells of the fetch out of the group
getDataRejected_RemovesShells(g, p) ==
    [g EXCEPT !.pending = g.pending \ {p},
              !.rows = SelectSeq(g.rows, LAMBDA r : ~(r.id < 0 /\ FetchOf(r.id) = p.no))]

\* the promise of getData is rejected: processData and populateRows are skipped,
\* the catch logs the error; the entries and the shells of the fetch stay as
\* getData and renderRowGroupContents made them
getDataRejected(g, p) ==
    [g EXCEPT !.pending = g.pending \ {p},
              !.workingSet = [i \in 1..Len(g.workingSet) |->
                  IF g.workingSet[i] < 0 /\ FetchOf(g.workingSet[i]) = p.no
                  THEN EmptyEntry ELSE g.workingSet[i]],
              !.rows = [i \in 1..Len(g.rows) |->
                  IF i \in Awaiting(g, p) THEN [g.rows[i] EXCEPT !.id = 0] ELSE g.rows[i]]]

\* renderRowGroupContents(start, end, headergroup / footergroup): the rows of the
\* frozen groups are not part of the scrolling group; their data is fetched and
\* populated whatever the viewport
renderFrozenRows(g, start, end) ==
    IF end < start
    THEN Throw(g)
    ELSE With(getData(g, Max(start, 0), end), LAMBDA g1 :
              IF ~g.async /\ Len(dataSourceGetData(g, Max(start, 0), end)) < end - start
              THEN Throw(g1)
              ELSE g1)

\* the callback of renderData, run with the record count the promise resolved to
renderDataCallback(g, count) ==
    With([resetDataSubscriptions(g) EXCEPT
              !.recordCount = count,
              !.workingSet = Holes(count),
              !.disposed = Append(g.disposed, Hook("allRowsDisposed", <<>>, <<>>))],
         LAMBDA g1 :
    With(setViewport(g1, [begin |-> 0, end |-> 0]), LAMBDA g2 :
    Then(g2, LAMBDA a :
    With(IF options.frozenRowsTop > 0
         THEN renderFrozenRows(a, 0, options.frozenRowsTop) ELSE a, LAMBDA g3 :
    Then(g3, LAMBDA b :
         IF options.frozenRowsBottom > 0
         THEN renderFrozenRows(b, count - options.frozenRowsBottom, count)
         ELSE b)))))

\* the promise of recordCount settles: the wrapped callback of renderData
recordCountResolved(g, p) ==
    IF wrappedRuns(g, p)
    THEN renderDataCallback([g EXCEPT !.pending = g.pending \ {p}], p.end)
    ELSE [g EXCEPT !.pending = g.pending \ {p}]

\* renderData(): the promise of the record count, its callback wrapped by the
\* current subscription queue
RecordCount(g, k) ==
    [kind |-> "recordCount", no |-> k, gen |-> g.generation, start |-> 0,
     end |-> Len(g.ds), data |-> <<>>]

\* utils.inAnimationFrame(() => { this.renderData(); ... }) of the dataloaded
\* handler, scheduled when the subscription queue was number gen
Frame(gen) ==
    [kind |-> "frame", no |-> 0, gen |-> gen, start |-> 0, end |-> 0, data |-> <<>>]

----------------------------------------------------------------------------
(* The render batch *)

NoQueue == [open |-> FALSE, syncScroll |-> FALSE, updateViewport |-> FALSE,
            adjustColumnPositions |-> FALSE, columnPositionsTemporary |-> "undefined",
            adjustHeights |-> FALSE, callbacks |-> <<>>]

\* queueRenderUpdate(): the first request opens the batch and schedules its flush
queueRenderUpdate(q) == IF q.open THEN q ELSE [NoQueue EXCEPT !.open = TRUE]

\* a queueRenderUpdate that schedules a flush on every request
schedule_EveryRequest(q, n) == n + 1

\* the flushes scheduled once queueRenderUpdate has run on the batch q:
\* utils.inAnimationFrame is called when the batch is created
schedule(q, n) == IF q.open THEN n ELSE n + 1

queueUpdateViewport(q) == [queueRenderUpdate(q) EXCEPT !.updateViewport = TRUE]
queueAdjustHeights(q) == [queueRenderUpdate(q) EXCEPT !.adjustHeights = TRUE]
queueSyncScroll(q) == [queueRenderUpdate(q) EXCEPT !.syncScroll = TRUE]
queueAfterRender(q, f) ==
    [queueRenderUpdate(q) EXCEPT !.callbacks = Append(queueRenderUpdate(q).callbacks, f)]

\* the values of the temporary argument: omitted, false, true
Temporaries == {"undefined", "false", "true"}

\* a queueAdjustColumnPositions where the last request decides
queueAdjustColumnPositions_LastWins(q, temporary) ==
    [queueRenderUpdate(q) EXCEPT
        !.columnPositionsTemporary = IF temporary # "true" THEN "false" ELSE "true",
        !.adjustColumnPositions = TRUE]

\* queueAdjustColumnPositions(temporary)
queueAdjustColumnPositions(q, temporary) ==
    [queueRenderUpdate(q) EXCEPT
        !.columnPositionsTemporary =
            IF temporary # "true" THEN "false"
            ELSE IF queueRenderUpdate(q).columnPositionsTemporary = "undefined"
                 THEN temporary
                 ELSE queueRenderUpdate(q).columnPositionsTemporary,
        !.adjustColumnPositions = TRUE]

\* an operation a flush runs, with the argument it is given
Ran(name, arg) == [kind |-> "operation", name |-> name, arg |-> arg]

\* a callback a flush invokes
Called(f) == [kind |-> "callback", name |-> f, arg |-> "none"]

\* a processRenderQueue that adjusts the heights before anything else
processRenderQueue_HeightsFirst(queue) ==
    (IF queue.adjustHeights THEN <<Ran("adjustHeights", "none")>> ELSE <<>>)
    \o (IF queue.syncScroll THEN <<Ran("syncScroll", "true")>> ELSE <<>>)
    \o (IF queue.updateViewport THEN <<Ran("updateViewport", "none")>> ELSE <<>>)
    \o (IF queue.adjustColumnPositions
        THEN <<Ran("adjustColumnPositions", queue.columnPositionsTemporary)>> ELSE <<>>)

\* processRenderQueue(queue): the operations it runs, in order
processRenderQueue(queue) ==
    (IF queue.syncScroll THEN <<Ran("syncScroll", "true")>> ELSE <<>>)
    \o (IF queue.updateViewport THEN <<Ran("updateViewport", "none")>> ELSE <<>>)
    \o (IF queue.adjustColumnPositions
        THEN <<Ran("adjustColumnPositions", queue.columnPositionsTemporary)>> ELSE <<>>)
    \o (IF queue.adjustHeights THEN <<Ran("adjustHeights", "none")>> ELSE <<>>)

\* the flush queueRenderUpdate schedules: processRenderQueue, then every callback
flush(queue) ==
    processRenderQueue(queue)
    \o [i \in 1..Len(queue.callbacks) |-> Called(queue.callbacks[i])]

\* what the rowsremoved / rowsadded handlers queue once the mutation is applied:
\* the mutation's own queueUpdateViewport, then the handler's three requests
queueAfterMutation(q, event) ==
    queueAfterRender(queueAdjustHeights(queueUpdateViewport(queueUpdateViewport(q))), event)

----------------------------------------------------------------------------
(* State machine *)

\* how a range lies relative to the viewport [b, e) it meets
Relation(vp, start, end) ==
    IF end <= vp.begin THEN "before"
    ELSE IF start >= vp.end THEN "after"
    ELSE "overlap"

Op(name, rel, len) == [op |-> name, rel |-> rel, len |-> len, threw |-> FALSE]

\* the grid fields and the effects of the operation that produced g
Install(g, op) ==
    /\ recordCount' = g.recordCount
    /\ workingSet' = g.workingSet
    /\ viewport' = g.viewport
    /\ rows' = g.rows
    /\ created' = g.created
    /\ destroyed' = g.destroyed
    /\ disposed' = g.disposed
    /\ lastOp' = [op EXCEPT !.threw = g.threw]
    /\ generation' = g.generation
    /\ pending' = g.pending
    /\ Cardinality(g.pending) <= MaxPending

\* no tree data source in use
\* source: the tree of the test it was built on; settings: the last filter settings
\* emitted: the events the method called last has triggered, in order; found:
\* the view and the expanded rows as that method found them, and its argument
NoTree == [expandedById |-> {}, view |-> <<>>, last |-> "none", source |-> 0,
           settings |-> <<>>, emitted |-> <<>>,
           found |-> [view |-> <<>>, expandedById |-> {}, arg |-> 0]]

\* the scroller at the top, nothing due
AtRest == [top |-> 0, debounce |-> FALSE, phase1 |-> FALSE, phase2 |-> FALSE,
           scrolls |-> 0]

\* no SummarizingDataSource in use
NoSummary == [delegate |-> <<>>, emitted |-> <<>>, count |-> 0, last |-> "none",
              start |-> 0, end |-> 0, result |-> <<>>]

\* no ArrayDataSource in use
NoArray == [data |-> <<>>, ready |-> FALSE, timer |-> FALSE, emitted |-> <<>>,
            last |-> "none", args |-> <<>>, threw |-> "nothing", result |-> <<>>]

\* no call of rowsInView recorded
NoView == [top |-> 0, bottom |-> 0, start |-> 0, end |-> 0, called |-> FALSE,
           result |-> [begin |-> 0, end |-> 0]]

\* the state once renderData's callback has run on a data source of n records:
\* recordCount known, a working set holding the frozen rows rendered into the
\* header and footer groups, viewport {0, 0}, and a batch holding its three
\* requests
Rendered(n) ==
    /\ options \in [frozenRowsTop : FrozenTops, frozenRowsBottom : FrozenBottoms,
                    virtualScrollingExcess : Excesses]
    /\ dsRows = Range(1, n + 1)
    /\ recordCount = n
    /\ workingSet = [i \in 1..n |->
                        IF i <= options.frozenRowsTop
                           \/ i > n - options.frozenRowsBottom
                        THEN i ELSE 0]
    /\ viewport = [begin |-> 0, end |-> 0]
    /\ rows = <<>>
    /\ renderQueue = queueAfterRender(queueAdjustHeights(queueUpdateViewport(NoQueue)),
                                      "datarendered")
    /\ created = <<>>
    /\ destroyed = <<>>
    /\ disposed = <<>>
    /\ lastOp = Op("renderData", "none", 0)
    /\ events = 0
    /\ view = NoView
    /\ frames = 1
    /\ flushed = <<>>
    /\ asked = {}
    /\ asynchronous = FALSE
    /\ generation = 2
    /\ pending = {}

Init == Rendered(InitRecords) /\ tree = NoTree /\ scroller = AtRest /\ summarizing = NoSummary /\ arrayDataSource = NoArray

\* the scroll positions the scroller can be at when the grid holds rc records:
\* 0 up to the height of the scrolling rows less the height of the scroll area
Scrollable(rc) ==
    {top \in ScrollTops :
        top <= Max(0, rowHeight(options.frozenRowsTop, rc - options.frozenRowsBottom)
                      - AreaHeight)}

\* the flush of the batch: processRenderQueue, the callbacks, then the batch is
\* dropped.  The viewport update it requests is debounced and runs later, as
\* UpdateViewportImmediate
Flush ==
    /\ frames > 0
    /\ renderQueue.open
    /\ frames' = frames - 1
    /\ flushed' = flush(renderQueue)
    /\ renderQueue' = NoQueue
    /\ created' = <<>>
    /\ destroyed' = <<>>
    /\ disposed' = <<>>
    /\ lastOp' = Op("flush", "none", 0)
    /\ UNCHANGED <<summarizing, arrayDataSource, tree, scroller, options, dsRows, recordCount, workingSet, viewport, rows, events, view,
                   asked, asynchronous, generation, pending>>

\* how the visible rows lie relative to the viewport: they share a row with it,
\* only the excess rows around them do, or not even those
Facing(g, top) ==
    IF overlap(visibleRows(g, top), g.viewport) THEN "overlap"
    ELSE IF overlap(g.viewport, rowsInViewWithExcess(g, top)) THEN "adjacent"
    ELSE "disjoint"

\* updateViewportImmediate(renderExcess) runs: phase 1 (renderExcess false) or
\* phase 2, at the scroll position top
UpdateViewportImmediate(renderExcess, top) ==
    /\ top \in Scrollable(recordCount)
    /\ \E g \in {updateViewportImmediate(Grid, renderExcess, top)} :
           Install(g, Op(IF renderExcess THEN "phase2" ELSE "phase1",
                         Facing(Grid, top), 0))
    /\ flushed' = <<>>
    /\ UNCHANGED <<summarizing, arrayDataSource, tree, scroller, options, dsRows, renderQueue, events, view, frames, asked, asynchronous>>

\* ranges a caller may hand to setViewport
ValidRanges ==
    {r \in [begin : 0..recordCount, end : 0..recordCount] :
        /\ options.frozenRowsTop <= r.begin
        /\ r.begin <= r.end
        /\ r.end <= recordCount - options.frozenRowsBottom}

\* setViewport(range) called directly
SetViewport(range) ==
    /\ \E g \in {setViewport(Grid, range)} :
           Install(g, Op("setViewport",
                         IF range = viewport THEN "same"
                         ELSE IF overlap(range, viewport) THEN "overlap" ELSE "disjoint",
                         range.end - range.begin))
    /\ flushed' = <<>>
    /\ UNCHANGED <<summarizing, arrayDataSource, tree, scroller, options, dsRows, renderQueue, events, view, frames, asked, asynchronous>>

\* the data source removes rows [start, end) and emits rowsremoved
RowsRemoved(start, end) ==
    /\ start <= end /\ end <= Len(dsRows)
    /\ events < MaxEvents
    /\ events' = events + 1
    /\ dsRows' = splice(dsRows, start, end - start)
    /\ \E g \in {_removeRows(GridOn(splice(dsRows, start, end - start)), start, end)} :
        /\ Install(g, Op("rowsremoved", Relation(viewport, start, end), end - start))
        /\ renderQueue' = IF g.threw THEN renderQueue
                          ELSE queueAfterMutation(renderQueue, "rowsremoved")
        /\ frames' = IF g.threw THEN frames ELSE schedule(renderQueue, frames)
    /\ flushed' = <<>>
    /\ UNCHANGED <<summarizing, arrayDataSource, tree, scroller, options, view, asked, asynchronous>>

\* The data source shows, in their fixed order, some of the records 1..MaxId.
\* The records an insertion of n rows at index start reveals: the first n hidden
\* records between the neighbours of the insertion point
Hidden(start) ==
    LET lo == IF start = 0 THEN 0 ELSE dsRows[start]
        hi == IF start = Len(dsRows) THEN MaxId + 1 ELSE dsRows[start + 1]
    IN  Range(lo + 1, hi)

\* the data source inserts rows at [start, end) and emits rowsadded
RowsAdded(start, end, top) ==
    /\ start <= end /\ start <= Len(dsRows)
    /\ end - start <= Len(Hidden(start))
    /\ top \in Scrollable(recordCount)
    /\ events < MaxEvents
    /\ events' = events + 1
    /\ \E ds \in {SubSeq(dsRows, 1, start) \o SubSeq(Hidden(start), 1, end - start)
                   \o SubSeq(dsRows, start + 1, Len(dsRows))} :
        /\ dsRows' = ds
        /\ \E g \in {_addRows(GridOn(ds), start, end, top)} :
            /\ Install(g, Op("rowsadded", Relation(viewport, start, end), end - start))
            /\ renderQueue' = IF g.threw THEN renderQueue
                              ELSE queueAfterMutation(renderQueue, "rowsadded")
            /\ frames' = IF g.threw THEN frames ELSE schedule(renderQueue, frames)
    /\ flushed' = <<>>
    /\ UNCHANGED <<summarizing, arrayDataSource, tree, scroller, options, view, asked, asynchronous>>

\* the events as the data source of the grid emits them, while the batch holds
\* fewer than MaxCallbacks callbacks
OnRowsRemoved(start, end) ==
    Len(renderQueue.callbacks) < MaxCallbacks /\ RowsRemoved(start, end)

OnRowsAdded(start, end, top) ==
    Len(renderQueue.callbacks) < MaxCallbacks /\ RowsAdded(start, end, top)

\* a rowsremoved event whose range does not fit the grid's recordCount
OnRowsRemovedMismatch(start, end) ==
    /\ end > recordCount \/ end < start
    /\ \E g \in {_removeRows(Grid, start, end)} :
        /\ Install(g, Op("rowsremoved",
                         IF end < start THEN "end < start" ELSE "end > recordCount", 0))
        /\ renderQueue' = IF g.threw THEN renderQueue
                          ELSE queueAfterMutation(renderQueue, "rowsremoved")
        /\ frames' = IF g.threw THEN frames ELSE schedule(renderQueue, frames)
    /\ flushed' = <<>>
    /\ UNCHANGED <<summarizing, arrayDataSource, tree, scroller, options, dsRows, events, view, asked, asynchronous>>

\* a rowsadded event whose start lies beyond the grid's recordCount
OnRowsAddedMismatch(start, end) ==
    /\ start > recordCount /\ start <= end
    /\ \E g \in {_addRows(Grid, start, end, 0)} :
        /\ Install(g, Op("rowsadded", "start > recordCount", 0))
        /\ renderQueue' = IF g.threw THEN renderQueue
                          ELSE queueAfterMutation(renderQueue, "rowsadded")
        /\ frames' = IF g.threw THEN frames ELSE schedule(renderQueue, frames)
    /\ flushed' = <<>>
    /\ UNCHANGED <<summarizing, arrayDataSource, tree, scroller, options, dsRows, events, view, asked, asynchronous>>

\* the indexes an event may carry
Indexes == 0..(MaxId + 2)

\* the ends of the ranges of the events that do not fit the grid's recordCount
Beyond == {0, recordCount + 1}

Next ==
    \/ Flush
    \/ \E renderExcess \in BOOLEAN, top \in ScrollTops :
            UpdateViewportImmediate(renderExcess, top)
    \/ \E range \in ValidRanges : SetViewport(range)
    \/ \E start \in Indexes, end \in Indexes : OnRowsRemoved(start, end)
    \/ \E start \in Indexes, end \in Indexes, top \in ScrollTops :
            OnRowsAdded(start, end, top)
    \/ \E start \in Beyond, end \in Beyond : OnRowsRemovedMismatch(start, end)
    \/ \E end \in {recordCount + 1, recordCount + 2} :
            OnRowsAddedMismatch(recordCount + 1, end)

Spec == Init /\ [][Next]_vars

----------------------------------------------------------------------------
(* rowsInView as viewRange, scrollToCell and updateViewportImmediate call it, *)
(* on a freshly rendered grid of any size                                     *)

\* scroll positions and scroll area heights, in pixels
ViewTops == {0, 20, 31, 40, 62, 93}
ViewHeights == {31, 40}

\* a data source of n records, n at least the number of frozen rows
InitView ==
    \E n \in 0..MaxId :
        /\ Rendered(n)
        /\ tree = NoTree /\ scroller = AtRest /\ summarizing = NoSummary /\ arrayDataSource = NoArray
        /\ n >= options.frozenRowsTop + options.frozenRowsBottom

\* rowsInView(sPos.top, sPos.top + sArea.height, start, end) with
\* start = frozenRowsTop and end = getRecordCount() - frozenRowsBottom
RowsInView(top, height) ==
    /\ top <= Max(0, rowHeight(options.frozenRowsTop,
                                recordCount - options.frozenRowsBottom) - height)
    /\ view' = [top |-> top, bottom |-> top + height,
                start |-> options.frozenRowsTop,
                end |-> recordCount - options.frozenRowsBottom,
                called |-> TRUE,
                result |-> rowsInView(top, top + height, options.frozenRowsTop,
                                      recordCount - options.frozenRowsBottom,
                                      recordCount, options.frozenRowsTop)]
    /\ UNCHANGED <<summarizing, arrayDataSource, tree, scroller, options, dsRows, recordCount, workingSet, viewport, rows,
                   renderQueue, created, destroyed, disposed, lastOp, events, frames,
                   flushed, asked, asynchronous, generation, pending>>

NextView == \E top \in ViewTops, height \in ViewHeights : RowsInView(top, height)

SpecView == InitView /\ [][NextView]_vars

----------------------------------------------------------------------------
(* The render batch under requests made one by one: the queue... methods as  *)
(* the grid's handlers, setColumnWidth, updateColumns and its extensions     *)
(* call them, and the flush                                                  *)

\* the callbacks handed to queueAfterRender
Callbacks == {"viewchanged", "rowsadded"}

\* a request on the batch: the grid itself is left alone
Request(name, q, temporaries) ==
    /\ renderQueue' = q
    /\ frames' = schedule(renderQueue, frames)
    /\ asked' = (IF renderQueue.open THEN asked ELSE {}) \cup temporaries
    /\ flushed' = <<>>
    /\ created' = <<>>
    /\ destroyed' = <<>>
    /\ disposed' = <<>>
    /\ lastOp' = Op(name, "none", 0)
    /\ UNCHANGED <<summarizing, arrayDataSource, tree, scroller, options, dsRows, recordCount, workingSet, viewport, rows, events,
                   view, asynchronous, generation, pending>>

QueueSyncScroll == Request("queueSyncScroll", queueSyncScroll(renderQueue), {})

QueueUpdateViewport ==
    Request("queueUpdateViewport", queueUpdateViewport(renderQueue), {})

QueueAdjustColumnPositions(temporary) ==
    Request("queueAdjustColumnPositions",
            queueAdjustColumnPositions(renderQueue, temporary), {temporary})

QueueAdjustHeights == Request("queueAdjustHeights", queueAdjustHeights(renderQueue), {})

QueueAfterRender(f) ==
    /\ Len(renderQueue.callbacks) < MaxQueued
    /\ Request("queueAfterRender", queueAfterRender(renderQueue, f), {})

NextBatch ==
    \/ QueueSyncScroll
    \/ QueueUpdateViewport
    \/ \E temporary \in Temporaries : QueueAdjustColumnPositions(temporary)
    \/ QueueAdjustHeights
    \/ \E f \in Callbacks : QueueAfterRender(f)
    \/ Flush

SpecBatch == Init /\ [][NextBatch]_vars

----------------------------------------------------------------------------
(* The flush when a callback it invokes raises, or calls a queue... method *)

\* the frame of queueRenderUpdate has run `done` and left the batch q behind
Frame_(q, done, rel, threw) ==
    /\ frames > 0
    /\ renderQueue.open
    /\ frames' = frames - 1
    /\ flushed' = done
    /\ renderQueue' = q
    /\ created' = <<>>
    /\ destroyed' = <<>>
    /\ disposed' = <<>>
    /\ lastOp' = [Op("flush", rel, 0) EXCEPT !.threw = threw]
    /\ UNCHANGED <<summarizing, arrayDataSource, tree, options, dsRows, recordCount, workingSet, viewport, rows, events,
                   view, asked, asynchronous, generation, pending>>

\* a frame that drops the batch whatever happens in it
raised_Finally(q) == NoQueue

\* the batch after the frame was left by an exception: line 1438 is not reached
raised(q) == q

\* the k-th callback raises: the operations and the callbacks up to it have run
FlushRaises ==
    \E k \in 1..Len(renderQueue.callbacks) :
        /\ Frame_(raised(renderQueue),
                  SubSeq(flush(renderQueue), 1,
                         Len(processRenderQueue(renderQueue)) + k),
                  "none", TRUE)
        /\ UNCHANGED scroller

\* the requests a callback may make on the grid while the flush runs it
InFlush == {"queueUpdateViewport", "queueAdjustHeights", "queueAfterRender"}

\* the batch with the request made on it
requested(q, r) ==
    CASE r = "queueUpdateViewport" -> queueUpdateViewport(q)
      [] r = "queueAdjustHeights" -> queueAdjustHeights(q)
      [] r = "queueAfterRender" -> queueAfterRender(q, "viewchanged")

\* what the request asks the flush to run
Item(r) ==
    CASE r = "queueUpdateViewport" -> Ran("updateViewport", "none")
      [] r = "queueAdjustHeights" -> Ran("adjustHeights", "none")
      [] r = "queueAfterRender" -> Called("viewchanged")

\* the frame, a callback of which makes the request r: processRenderQueue has
\* returned and forEach does not visit what is appended while it runs, so the
\* request joins the batch of the running flush (it opens none and schedules
\* nothing, line 1428) and goes with it at line 1438
FlushRequesting ==
    \E r \in InFlush :
        /\ renderQueue.callbacks # <<>>
        /\ schedule(renderQueue, frames) = frames
        /\ requested(renderQueue, r).open
        /\ Frame_(NoQueue, flush(renderQueue), r, FALSE)
        /\ UNCHANGED scroller

NextFlush ==
    \/ QueueSyncScroll
    \/ QueueUpdateViewport
    \/ \E temporary \in Temporaries : QueueAdjustColumnPositions(temporary)
    \/ QueueAdjustHeights
    \/ \E f \in Callbacks : QueueAfterRender(f)
    \/ Flush
    \/ FlushRaises
    \/ FlushRequesting

SpecFlush == Init /\ [][NextFlush]_vars

----------------------------------------------------------------------------
(* The grid from its construction to the first renderData *)

\* the grid before its first renderData: init() has created the first
\* subscription queue
Blank ==
    [ds |-> Range(1, InitRecords + 1), recordCount |-> 0, workingSet |-> <<>>,
     viewport |-> [begin |-> 0, end |-> 0], rows |-> <<>>, created |-> <<>>,
     destroyed |-> <<>>, disposed |-> <<>>, threw |-> FALSE, async |-> TRUE,
     generation |-> 1,
     pending |-> {}]

\* this.recordCount === undefined: renderData's callback has not run
Unknown == 0 - 1
\* this.recordCount is NaN: undefined plus or minus a number
NotANumber == 0 - 2

\* getRecordCount(): throws while this.recordCount === undefined
getRecordCountThrows(rc) == rc = Unknown

\* the grid once its constructor has run: no record count, no working set and no
\* viewport yet (workingSet and viewport hold placeholders no action reads
\* before renderData's callback assigns them), the batch opened by the
\* constructor's queueAdjustColumnPositions()
InitUnready ==
    /\ options \in [frozenRowsTop : FrozenTops, frozenRowsBottom : FrozenBottoms,
                    virtualScrollingExcess : Excesses]
    /\ dsRows = Range(1, InitRecords + 1)
    /\ recordCount = Unknown
    /\ workingSet = <<>>
    /\ viewport = [begin |-> 0, end |-> 0]
    /\ rows = <<>>
    /\ renderQueue = queueAdjustColumnPositions(NoQueue, "undefined")
    /\ created = <<>>
    /\ destroyed = <<>>
    /\ disposed = <<>>
    /\ lastOp = Op("constructor", "none", 0)
    /\ events = 0
    /\ view = NoView
    /\ frames = 1
    /\ flushed = <<>>
    /\ asked = {"undefined"}
    /\ asynchronous = FALSE
    /\ generation = 1
    /\ pending = {}
    /\ tree = NoTree /\ scroller = AtRest /\ summarizing = NoSummary /\ arrayDataSource = NoArray

\* a call that changes nothing but is recorded: its name, the record count it
\* saw and whether it threw
Query(name, threw) ==
    /\ lastOp' = [Op(name, "none", recordCount) EXCEPT !.threw = threw]
    /\ created' = <<>>
    /\ destroyed' = <<>>
    /\ disposed' = <<>>
    /\ flushed' = <<>>
    /\ UNCHANGED <<summarizing, arrayDataSource, tree, scroller, options, dsRows, recordCount, workingSet, viewport, rows, renderQueue,
                   events, view, frames, asked, asynchronous, generation, pending>>

\* getRecordCount() is called
GetRecordCount == Query("getRecordCount", getRecordCountThrows(recordCount))

\* viewRange() is called: it fails in getRecordCount() or returns a range
ViewRange == Query("viewRange", getRecordCountThrows(recordCount))

\* updateViewportImmediate(renderExcess): fails in getRecordCount() while the
\* record count is undefined, runs once renderData has set it
UpdateViewportImmediateEarly(renderExcess, top) ==
    IF recordCount >= 0
    THEN UpdateViewportImmediate(renderExcess, top)
    ELSE recordCount = Unknown /\ top = 0 /\ Query("updateViewportImmediate", TRUE)

\* setViewport(range): fails in getRecordCount() before it assigns anything
\* while the record count is undefined, runs once renderData has set it
SetViewportEarly(range) ==
    IF recordCount >= 0
    THEN range \in ValidRanges /\ SetViewport(range)
    ELSE recordCount = Unknown /\ Query("setViewport", TRUE)

\* a rowsadded or rowsremoved event before renderData's callback has run: the
\* range checks compare with undefined and pass, recordCount += or -= makes it
\* NaN, this.workingSet is undefined and skipped, and reading
\* this.viewport.begin throws
EarlyEvent(name, ds) ==
    /\ recordCount < 0
    /\ events < MaxEvents
    /\ events' = events + 1
    /\ dsRows' = ds
    /\ recordCount' = NotANumber
    /\ lastOp' = [Op(name, "none", 0) EXCEPT !.threw = TRUE]
    /\ created' = <<>>
    /\ destroyed' = <<>>
    /\ disposed' = <<>>
    /\ flushed' = <<>>
    /\ UNCHANGED <<summarizing, arrayDataSource, tree, scroller, options, workingSet, viewport, rows, renderQueue, view, frames, asked,
                   asynchronous, generation, pending>>

OnRowsAddedEarly(start, end) ==
    /\ start <= end /\ start <= Len(dsRows)
    /\ end - start <= Len(Hidden(start))
    /\ EarlyEvent("rowsadded", SubSeq(dsRows, 1, start)
                                 \o SubSeq(Hidden(start), 1, end - start)
                                 \o SubSeq(dsRows, start + 1, Len(dsRows)))

OnRowsRemovedEarly(start, end) ==
    /\ start <= end /\ end <= Len(dsRows)
    /\ EarlyEvent("rowsremoved", splice(dsRows, start, end - start))

\* the first renderData's callback runs with the data source's record count
RenderData ==
    /\ recordCount < 0
    /\ Len(renderQueue.callbacks) < MaxCallbacks
    /\ \E g \in {renderDataCallback([Blank EXCEPT !.ds = dsRows, !.async = FALSE],
                                     Len(dsRows))} :
        /\ Install(g, Op("renderData", "none", 0))
        /\ renderQueue' =
              IF g.threw THEN renderQueue
              ELSE queueAfterRender(queueAdjustHeights(queueUpdateViewport(renderQueue)),
                                    "datarendered")
        /\ frames' = IF g.threw THEN frames ELSE schedule(renderQueue, frames)
    /\ flushed' = <<>>
    /\ UNCHANGED <<summarizing, arrayDataSource, tree, scroller, options, dsRows, events, view, asked, asynchronous>>

NextUnready ==
    \/ Flush
    \/ GetRecordCount
    \/ ViewRange
    \/ \E renderExcess \in BOOLEAN, top \in ScrollTops :
            UpdateViewportImmediateEarly(renderExcess, top)
    \/ \E range \in [begin : 0..MaxId, end : 0..MaxId] : SetViewportEarly(range)
    \/ \E start \in Indexes, end \in Indexes : OnRowsAddedEarly(start, end)
    \/ \E start \in Indexes, end \in Indexes : OnRowsRemovedEarly(start, end)
    \/ RenderData

SpecUnready == InitUnready /\ [][NextUnready]_vars

----------------------------------------------------------------------------
(* The grid on a data source that answers with promises *)

\* record counts of the data sets a dataloaded event may announce
Reloads == {InitRecords - 1, InitRecords}

\* the state once renderData's callback has run on the promised record count
InitAsync ==
    /\ options \in [frozenRowsTop : FrozenTops, frozenRowsBottom : FrozenBottoms,
                    virtualScrollingExcess : {0}]
    /\ dsRows = Range(1, InitRecords + 1)
    /\ asynchronous = TRUE
    /\ \E g \in {renderDataCallback(Blank, InitRecords)} :
           /\ recordCount = g.recordCount
           /\ workingSet = g.workingSet
           /\ viewport = g.viewport
           /\ rows = g.rows
           /\ generation = g.generation
           /\ pending = g.pending
    /\ renderQueue = queueAfterRender(queueAdjustHeights(queueUpdateViewport(NoQueue)),
                                      "datarendered")
    /\ created = <<>>
    /\ destroyed = <<>>
    /\ disposed = <<>>
    /\ lastOp = Op("renderData", "none", 0)
    /\ events = 0
    /\ view = NoView
    /\ frames = 1
    /\ flushed = <<>>
    /\ asked = {}
    /\ tree = NoTree /\ scroller = AtRest /\ summarizing = NoSummary /\ arrayDataSource = NoArray

\* the data source loads a data set of n records and emits dataloaded: the
\* handler resets the subscriptions and schedules renderData
DataLoaded(n) ==
    /\ events < MaxEvents
    /\ Cardinality(pending) < MaxPending
    /\ events' = events + 1
    /\ dsRows' = Range(1, n + 1)
    /\ generation' = generation + 1
    /\ pending' = pending \cup {Frame(generation + 1)}
    /\ created' = <<>>
    /\ destroyed' = <<>>
    /\ disposed' = <<>>
    /\ flushed' = <<>>
    /\ lastOp' = Op("dataloaded", "none", n)
    /\ UNCHANGED <<summarizing, arrayDataSource, tree, scroller, options, recordCount, workingSet, viewport, rows, renderQueue, view,
                   frames, asked, asynchronous>>

\* the frame of a dataloaded event: renderData(), then
\* queueAfterRender(viewchanged)
RenderDataFrame(p) ==
    /\ p.kind = "frame"
    /\ Len(renderQueue.callbacks) < MaxCallbacks
    /\ pending' = (pending \ {p}) \cup {RecordCount(Grid, FreeFetch(Grid))}
    /\ renderQueue' = queueAfterRender(renderQueue, "viewchanged")
    /\ frames' = schedule(renderQueue, frames)
    /\ created' = <<>>
    /\ destroyed' = <<>>
    /\ disposed' = <<>>
    /\ flushed' = <<>>
    /\ lastOp' = Op("renderData called", "none", 0)
    /\ UNCHANGED <<summarizing, arrayDataSource, tree, scroller, options, dsRows, recordCount, workingSet, viewport, rows, events, view,
                   asked, asynchronous, generation>>

\* whether a reset of the subscriptions came between the wrapping and now
Staleness(p) == IF p.gen = generation THEN "current" ELSE "stale"

\* the promise of a renderData settles
RecordCountResolved(p) ==
    /\ p.kind = "recordCount"
    /\ Len(renderQueue.callbacks) < MaxCallbacks
    /\ \E g \in {recordCountResolved(Grid, p)} :
        /\ Install(g, Op("recordCount resolved", Staleness(p), 0))
        /\ renderQueue' =
              IF wrappedRuns(Grid, p) /\ ~g.threw
              THEN queueAfterRender(queueAdjustHeights(queueUpdateViewport(renderQueue)),
                                    "datarendered")
              ELSE renderQueue
        /\ frames' = IF wrappedRuns(Grid, p) /\ ~g.threw
                      THEN schedule(renderQueue, frames) ELSE frames
    /\ flushed' = <<>>
    /\ UNCHANGED <<summarizing, arrayDataSource, tree, scroller, options, dsRows, events, view, asked, asynchronous>>

\* the promise of a getData settles
GetDataResolved(p) ==
    /\ p.kind = "getData"
    /\ \E g \in {getDataResolved(Grid, p)} :
           Install(g, Op("getData resolved", Staleness(p),
                         Cardinality(Awaiting(Grid, p))))
    /\ flushed' = <<>>
    /\ UNCHANGED <<summarizing, arrayDataSource, tree, scroller, options, dsRows, renderQueue, events, view, frames, asked,
                   asynchronous>>

\* the promise of a getData is rejected
GetDataRejected(p) ==
    /\ p.kind = "getData"
    /\ \E g \in {getDataRejected(Grid, p)} :
           Install(g, Op("getData rejected", Staleness(p),
                         Cardinality(Awaiting(Grid, p))))
    /\ flushed' = <<>>
    /\ UNCHANGED <<summarizing, arrayDataSource, tree, scroller, options, dsRows, renderQueue, events, view, frames, asked,
                   asynchronous>>

NextAsync ==
    \/ Flush
    \/ \E renderExcess \in BOOLEAN, top \in ScrollTops :
            UpdateViewportImmediate(renderExcess, top)
    \/ \E start \in Indexes, end \in Indexes : OnRowsRemoved(start, end)
    \/ \E start \in Indexes, end \in Indexes, top \in ScrollTops :
            OnRowsAdded(start, end, top)
    \/ \E n \in Reloads : DataLoaded(n)
    \/ \E p \in pending : RenderDataFrame(p)
    \/ \E p \in pending : RecordCountResolved(p)
    \/ \E p \in pending : GetDataResolved(p)

SpecAsync == InitAsync /\ [][NextAsync]_vars

\* the same grid on a data source whose fetches may fail, between two loads
NextFailing ==
    \/ Flush
    \/ \E renderExcess \in BOOLEAN, top \in ScrollTops :
            UpdateViewportImmediate(renderExcess, top)
    \/ \E start \in Indexes, end \in Indexes : OnRowsRemoved(start, end)
    \/ \E start \in Indexes, end \in Indexes, top \in ScrollTops :
            OnRowsAdded(start, end, top)
    \/ \E p \in pending : GetDataResolved(p)
    \/ \E p \in pending : GetDataRejected(p)

\* grids with a frozen top row: the fetch of the header rows may fail as well
InitFailing == InitAsync /\ options.frozenRowsTop = 1

SpecFailing == InitFailing /\ [][NextFailing]_vars

----------------------------------------------------------------------------
(* SyncTreeGridDataSource: the flat list of the expanded nodes of a tree *)

\* the tree source: its root nodes and the children of each node, in order
getRootNodes == <<1, 4>>

children(node) ==
    CASE node = 1 -> <<2, 3>>
      [] node = 2 -> <<5>>
      [] node = 4 -> <<6>>
      [] OTHER -> <<>>

hasChildren(node) == children(node) # <<>>

TreeNodes == 1..6

\* the depths expandToLevel is called with
Depths == 1..3

\* an entry of the view: the wrapper of a record and its level; current says
\* that the wrapper is the one nodesById holds for the record's id
Wrapper(id, level) == [id |-> id, level |-> level, current |-> TRUE]

\* flattenTree's list: every node, and below an expanded node its children
RECURSIVE flatten(_, _, _)
flatten(nodes, level, expandedById) ==
    IF nodes = <<>> THEN <<>>
    ELSE <<Wrapper(Head(nodes), level)>>
         \o (IF Head(nodes) \in expandedById
             THEN flatten(children(Head(nodes)), level + 1, expandedById)
             ELSE <<>>)
         \o flatten(Tail(nodes), level, expandedById)

\* flattenTree replaces the wrapper nodesById holds for each node it lists: a
\* wrapper of the view made earlier for that node is not the current one any more
Superseded(v, list) ==
    [i \in 1..Len(v) |->
        IF \E j \in 1..Len(list) : list[j].id = v[i].id
        THEN [v[i] EXCEPT !.current = FALSE] ELSE v[i]]

\* view.indexOf(findNodeForRowId(id)) + 1: 0 when nodesById has no wrapper for
\* the id or the wrapper is not in the view
indexOf(v, id) ==
    IF \E i \in 1..Len(v) : v[i].id = id /\ v[i].current
    THEN CHOOSE i \in 1..Len(v) : v[i].id = id /\ v[i].current
    ELSE 0

\* an isExpanded that finds no row expanded
isExpanded_Never(t, row) == FALSE

isExpanded(t, row) == row \in t.expandedById

\* the records and levels a listener finds in a view
Listed(v) == [i \in 1..Len(v) |-> [id |-> v[i].id, level |-> v[i].level]]

\* this.trigger(name, {start, end}) of rowsadded and rowsremoved; before is the
\* view the method found, after the view at the time of the call
RowsEvent(name, start, end, before, after) ==
    [name |-> name, start |-> start, end |-> end, id |-> 0, state |-> FALSE,
     before |-> Listed(before), after |-> Listed(after)]

\* this.trigger('treetoggled', {id, index, state})
Toggled(id, index, state, v) ==
    [name |-> "treetoggled", start |-> index, end |-> index, id |-> id, state |-> state,
     before |-> Listed(v), after |-> Listed(v)]

trigger(t, event) == [t EXCEPT !.emitted = Append(@, event)]

load(t) ==
    trigger([t EXCEPT !.view = flatten(getRootNodes, 0, t.expandedById), !.last = "load"],
            RowsEvent("dataloaded", 0, 0, t.view, flatten(getRootNodes, 0, t.expandedById)))

\* an expand that reports the children of the row only, not what is shown of
\* the subtrees below those that are expanded
expand_ChildrenOnly(t, row) ==
    IF isExpanded(t, row) THEN t
    ELSE With([t EXCEPT !.expandedById = @ \cup {row}], LAMBDA t1 :
         With(indexOf(t1.view, row), LAMBDA idx :
         With(IF idx > 0
              THEN With(flatten(children(row), t1.view[idx].level + 1, t1.expandedById),
                        LAMBDA subtree :
                   With(Superseded(t1.view, subtree), LAMBDA v :
                   With([t1 EXCEPT !.view = SubSeq(v, 1, idx) \o subtree
                                            \o SubSeq(v, idx + 1, Len(v))], LAMBDA t2 :
                      trigger(t2, RowsEvent("rowsadded", idx, idx + Len(children(row)),
                                       t.view, t2.view)))))
              ELSE t1, LAMBDA t3 :
            trigger(t3, Toggled(row, idx, TRUE, t3.view)))))

expand(t, row) ==
    IF isExpanded(t, row) THEN t
    ELSE With([t EXCEPT !.expandedById = @ \cup {row}], LAMBDA t1 :
         With(indexOf(t1.view, row), LAMBDA idx :
         With(IF idx > 0
              THEN With(flatten(children(row), t1.view[idx].level + 1, t1.expandedById),
                        LAMBDA subtree :
                   With(Superseded(t1.view, subtree), LAMBDA v :
                   With([t1 EXCEPT !.view = SubSeq(v, 1, idx) \o subtree
                                            \o SubSeq(v, idx + 1, Len(v))], LAMBDA t2 :
                      trigger(t2, RowsEvent("rowsadded", idx, idx + Len(subtree),
                                       t.view, t2.view)))))
              ELSE t1, LAMBDA t3 :
            trigger(t3, Toggled(row, idx, TRUE, t3.view)))))

\* the loop with >= for >: the node's later siblings go as well
endOf_Siblings(v, startIdx) ==
    CHOOSE endIdx \in startIdx..Len(v) :
        /\ \A i \in (startIdx + 1)..endIdx : v[i].level >= v[startIdx].level
        /\ endIdx = Len(v) \/ ~(v[endIdx + 1].level >= v[startIdx].level)

\* the loop of line 123: the last position after startIdx up to which the
\* entries lie deeper than the node
endOf(v, startIdx) ==
    CHOOSE endIdx \in startIdx..Len(v) :
        /\ \A i \in (startIdx + 1)..endIdx : v[i].level > v[startIdx].level
        /\ endIdx = Len(v) \/ ~(v[endIdx + 1].level > v[startIdx].level)

\* a collapse that takes out as many entries as the row has children
collapse_ChildrenOnly(t, row) ==
    IF ~isExpanded(t, row) THEN t
    ELSE With([t EXCEPT !.expandedById = @ \ {row}], LAMBDA t1 :
         With(indexOf(t1.view, row), LAMBDA startIdx :
         With(IF startIdx > 0
              THEN With([t1 EXCEPT !.view =
                            SubSeq(@, 1, startIdx)
                            \o SubSeq(@, Min(Len(@), startIdx + Len(children(row))) + 1, Len(@))],
                        LAMBDA t2 :
                      trigger(t2, RowsEvent("rowsremoved", startIdx,
                                            Min(Len(t.view), startIdx + Len(children(row))),
                                            t.view, t2.view)))
              ELSE t1, LAMBDA t3 :
            trigger(t3, Toggled(row, startIdx, FALSE, t3.view)))))

collapse(t, row) ==
    IF ~isExpanded(t, row) THEN t
    ELSE With([t EXCEPT !.expandedById = @ \ {row}], LAMBDA t1 :
         With(indexOf(t1.view, row), LAMBDA startIdx :
         With(IF startIdx > 0
              THEN With([t1 EXCEPT !.view = SubSeq(@, 1, startIdx)
                                            \o SubSeq(@, endOf(@, startIdx) + 1, Len(@))],
                        LAMBDA t2 :
                      trigger(t2, RowsEvent("rowsremoved", startIdx, endOf(t.view, startIdx),
                                       t.view, t2.view)))
              ELSE t1, LAMBDA t3 :
            trigger(t3, Toggled(row, startIdx, FALSE, t3.view)))))

toggle(t, rowId) ==
    IF isExpanded(t, rowId) THEN collapse(t, rowId) ELSE expand(t, rowId)

\* expandAll's inner function
RECURSIVE expandNodes(_, _)
expandNodes(t, nodes) ==
    IF nodes = <<>> THEN t
    ELSE With(expand(t, Head(nodes)), LAMBDA t1 :
         With(IF hasChildren(Head(nodes)) THEN expandNodes(t1, children(Head(nodes)))
              ELSE t1, LAMBDA t2 :
            expandNodes(t2, Tail(nodes))))

\* rowId 0: no argument
expandAll(t, rowId) ==
    expandNodes(t, IF rowId # 0 THEN <<rowId>> ELSE getRootNodes)

\* expandToLevel's inner function
RECURSIVE expandDepth(_, _, _)
expandDepth(t, nodes, depth) ==
    IF nodes = <<>> THEN t
    ELSE With(expand(t, Head(nodes)), LAMBDA t1 :
         With(IF depth > 1 THEN expandDepth(t1, children(Head(nodes)), depth - 1)
              ELSE t1, LAMBDA t2 :
            expandDepth(t2, Tail(nodes), depth)))

expandToLevel(t, depth) == expandDepth(t, getRootNodes, depth)

\* the grid the data source belongs to is left alone
gridVars == <<options, dsRows, recordCount, workingSet, viewport, rows, renderQueue,
              created, destroyed, disposed, lastOp, events, view, frames, flushed,
              asked, asynchronous, generation, pending, scroller, summarizing,
              arrayDataSource>>

\* the data source as a call finds it: nothing triggered yet
called ==
    [tree EXCEPT !.emitted = <<>>,
                 !.found = [view |-> Listed(tree.view), expandedById |-> tree.expandedById,
                            arg |-> 0]]

\* the data source as a call with the argument arg finds it
calledWith(arg) == [called EXCEPT !.found.arg = arg]

\* a method of the data source runs
Method(name, t) ==
    /\ tree' = [t EXCEPT !.last = name]
    /\ UNCHANGED gridVars

Load == Method("load", load(called))

Expand == \E row \in TreeNodes : Method("expand", expand(calledWith(row), row))

Collapse == \E row \in TreeNodes : Method("collapse", collapse(calledWith(row), row))

Toggle == \E rowId \in TreeNodes : Method("toggle", toggle(calledWith(rowId), rowId))

ExpandAll == \E rowId \in {0} \cup TreeNodes : Method("expandAll", expandAll(calledWith(rowId), rowId))

ExpandToLevel == \E depth \in Depths : Method("expandToLevel", expandToLevel(calledWith(depth), depth))

NextTree ==
    \/ Load
    \/ Expand
    \/ Collapse
    \/ Toggle
    \/ ExpandAll
    \/ ExpandToLevel

\* the constructor on a tree source that is ready: nothing expanded, loaded
InitTree ==
    /\ Rendered(InitRecords)
    /\ options = [frozenRowsTop |-> 0, frozenRowsBottom |-> 0,
                  virtualScrollingExcess |-> 0]
    /\ tree = load(NoTree)
    /\ scroller = AtRest /\ summarizing = NoSummary /\ arrayDataSource = NoArray

SpecTree == InitTree /\ [][NextTree]_vars

----------------------------------------------------------------------------
(* Filtering a tree grid data source (src/web/tests/filtering.js) *)

\* the strings of the tests, as their characters
IRAC == <<"I", "R", "A", "C">>
IRAC7055i == IRAC \o <<"7", "0", "5", "5", "i">>
IRAdvance == <<"I", "R", "A", "d", "v", "a", "n", "c", "e">>
ImagePRESS == <<"I", "m", "a", "g", "e", "P", "R", "E", "S", "S">>
IP550 == <<"I", "P", "5", "5", "0">>
CruftFoods == <<"C", "r", "u", "f", "t", " ", "f", "o", "o", "d", "s">>
Nettles == <<"N", "e", "t", "t", "l", "e", "s">>
BlackAndWhite == <<"B", "l", "a", "c", "k", " ", "&", " ", "W", "h", "i", "t", "e">>
Color == <<"C", "o", "l", "o", "r">>
SwishHair == <<"S", "w", "i", "s", "h", " ", "H", "a", "i", "r">>

\* a node of a test's tree; e <<>> = the node has no property e
Node(d, e, kids) == [d |-> d, e |-> e, children |-> kids]

\* the tree of the first test, by node id
Tree3Deep ==
    [roots |-> <<1, 4, 7>>,
     nodes |-> ( 1 :> Node(CruftFoods, <<"B">>, <<2, 3>>)
              @@ 2 :> Node(IRAC7055i, <<"F">>, <<21>>)
              @@ 21 :> Node(IRAdvance, <<>>, <<>>)
              @@ 3 :> Node(ImagePRESS, <<"F">>, <<31>>)
              @@ 31 :> Node(IP550, <<>>, <<>>)
              @@ 4 :> Node(Nettles, <<"B">>, <<5, 6>>)
              @@ 5 :> Node(IRAC7055i, <<"F">>, <<51, 52>>)
              @@ 51 :> Node(IRAdvance, <<>>, <<>>)
              @@ 52 :> Node(BlackAndWhite, <<>>, <<>>)
              @@ 6 :> Node(IRAC7055i, <<"F">>, <<61>>)
              @@ 61 :> Node(Color, <<>>, <<>>)
              @@ 7 :> Node(SwishHair, <<"C">>, <<8>>)
              @@ 8 :> Node(ImagePRESS, <<"A">>, <<>>) )]

\* the tree of the second test
Tree2Deep ==
    [roots |-> <<1, 4, 7>>,
     nodes |-> ( 1 :> Node(CruftFoods, <<"B">>, <<2, 3>>)
              @@ 2 :> Node(IRAC7055i, <<"F">>, <<>>)
              @@ 3 :> Node(ImagePRESS, <<"F">>, <<>>)
              @@ 4 :> Node(Nettles, <<"B">>, <<5, 6>>)
              @@ 5 :> Node(IRAC7055i, <<"F">>, <<>>)
              @@ 6 :> Node(IRAC7055i, <<"F">>, <<>>)
              @@ 7 :> Node(SwishHair, <<"C">>, <<8>>)
              @@ 8 :> Node(ImagePRESS, <<"A">>, <<>>) )]

TestTrees == <<Tree3Deep, Tree2Deep>>

\* method "contains"
Contains(hay, needle) ==
    \E i \in 0..(Len(hay) - Len(needle)) : SubSeq(hay, i + 1, i + Len(needle)) = needle

\* the setting of one column
ColumnFilter(key, type, value) == [key |-> key, type |-> type, value |-> value]

\* the values filtered for, per column
Needles(key) == IF key = "d" THEN {IRAC, ImagePRESS, <<"I", "P">>}
                ELSE {<<"F">>, <<"B">>, <<"A">>}

ColumnFilters(key) ==
    {ColumnFilter(key, type, value) : type \in {"exclusive", "inclusive"},
                                      value \in Needles(key)}

\* the settings objects, as their columns in key order: none, one column, or
\* both columns in either order with at most one inclusive filter
FilterSettings ==
    {<<>>}
    \cup {<<f>> : f \in ColumnFilters("d") \cup ColumnFilters("e")}
    \cup {s \in {<<f, g>> : f, g \in ColumnFilters("d") \cup ColumnFilters("e")} :
             /\ s[1].key # s[2].key
             /\ ~(s[1].type = "inclusive" /\ s[2].type = "inclusive")}

Matches(T, n, f) ==
    Contains(IF f.key = "d" THEN T.nodes[n].d ELSE T.nodes[n].e, f.value)

Of(settings, type) == {i \in 1..Len(settings) : settings[i].type = type}

Excluded(T, n, settings) ==
    \E i \in Of(settings, "exclusive") : Matches(T, n, settings[i])

Included(T, n, settings) ==
    /\ Of(settings, "inclusive") # {}
    /\ \A i \in Of(settings, "inclusive") : Matches(T, n, settings[i])

\* the filter, over the unfiltered tree: a node matching an exclusive filter
\* goes with its subtree; with inclusive filters a node stays when it or a node
\* above it matches them, or when some node below it stays.
\* The variant keeps a node above any match, also one an exclusive filter removed
RECURSIVE filterNodes_AnyDescendant(_, _, _, _, _)
filterNodes_AnyDescendant(T, nodes, level, settings, above) ==
    IF nodes = <<>> THEN <<>>
    ELSE With(Head(nodes), LAMBDA n :
         With(filterNodes_AnyDescendant(T, T.nodes[n].children, level + 1, settings,
                                        above \/ Included(T, n, settings)), LAMBDA kids :
         With(filterNodes_AnyDescendant(T, T.nodes[n].children, level + 1,
                                        SelectSeq(settings, LAMBDA f : f.type = "inclusive"),
                                        above \/ Included(T, n, settings)), LAMBDA hits :
            (IF /\ ~Excluded(T, n, settings)
                /\ \/ Of(settings, "inclusive") = {}
                   \/ above
                   \/ Included(T, n, settings)
                   \/ hits # <<>>
             THEN <<Wrapper(n, level)>> \o kids ELSE <<>>)
            \o filterNodes_AnyDescendant(T, Tail(nodes), level, settings, above))))

RECURSIVE filterNodes(_, _, _, _, _)
filterNodes(T, nodes, level, settings, above) ==
    IF nodes = <<>> THEN <<>>
    ELSE With(Head(nodes), LAMBDA n :
         With(filterNodes(T, T.nodes[n].children, level + 1, settings,
                          above \/ Included(T, n, settings)), LAMBDA kids :
            (IF /\ ~Excluded(T, n, settings)
                /\ \/ Of(settings, "inclusive") = {}
                   \/ above
                   \/ Included(T, n, settings)
                   \/ kids # <<>>
             THEN <<Wrapper(n, level)>> \o kids ELSE <<>>)
            \o filterNodes(T, Tail(nodes), level, settings, above)))

\* filtering.filter(settings) on the data source of test `source`
filter(t, settings) ==
    [t EXCEPT !.view = filterNodes(TestTrees[t.source], TestTrees[t.source].roots, 0,
                                   settings, FALSE),
              !.settings = settings]

Filter == \E settings \in FilterSettings : Method("filter", filter(tree, settings))

NextFilter == Filter

\* new TreeGridDataSource(tree, {initialTreeDepth: 3}) and filtering.init
InitFilter ==
    /\ Rendered(InitRecords)
    /\ options = [frozenRowsTop |-> 0, frozenRowsBottom |-> 0,
                  virtualScrollingExcess |-> 0]
    /\ \E source \in 1..Len(TestTrees) :
           tree = [filter([NoTree EXCEPT !.source = source], <<>>) EXCEPT !.last = "load"]
    /\ scroller = AtRest /\ summarizing = NoSummary /\ arrayDataSource = NoArray

SpecFilter == InitFilter /\ [][NextFilter]_vars

----------------------------------------------------------------------------
(* Scrolling and the scheduling of the two-phase viewport update *)

\* scroll events the user may cause
MaxScrolls == 2

\* the highest scroll position when the grid holds rc records
maxScroll(rc) ==
    Max(0, rowHeight(options.frozenRowsTop, rc - options.frozenRowsBottom) - AreaHeight)

\* updateViewport(): the debounced function is called and its timer restarts
updateViewport(s) == [s EXCEPT !.debounce = TRUE]

\* a scroll listener that updates the viewport at once, without the debounce
Scroll_Immediate ==
    \E top \in ScrollTops :
        /\ top <= maxScroll(recordCount)
        /\ top # scroller.top
        /\ scroller.scrolls < MaxScrolls
        /\ scroller' = [scroller EXCEPT !.top = top, !.scrolls = @ + 1]
        /\ \E g \in {updateViewportImmediate(Grid, FALSE, top)} :
               Install(g, Op("scroll", "none", 0))
        /\ flushed' = <<>>
        /\ UNCHANGED <<summarizing, arrayDataSource, tree, options, dsRows, renderQueue, events, view, frames, asked,
                       asynchronous>>

\* the user scrolls to top: the scroll listener runs syncScroll(this, evt),
\* which ends in afterscroll
Scroll ==
    \E top \in ScrollTops :
        /\ top <= maxScroll(recordCount)
        /\ top # scroller.top
        /\ scroller.scrolls < MaxScrolls
        /\ scroller' = updateViewport([scroller EXCEPT !.top = top, !.scrolls = @ + 1])
        /\ created' = <<>>
        /\ destroyed' = <<>>
        /\ disposed' = <<>>
        /\ flushed' = <<>>
        /\ lastOp' = Op("scroll", "none", 0)
        /\ UNCHANGED <<summarizing, arrayDataSource, tree, options, dsRows, recordCount, workingSet, viewport, rows,
                       renderQueue, events, view, frames, asked, asynchronous,
                       generation, pending>>

\* rowsadded and rowsremoved arrive while the scroller is where the user left it
Mutation ==
    /\ Len(renderQueue.callbacks) < MaxQueued
    /\ \E start \in Indexes, end \in Indexes :
        \/ RowsAdded(start, end, scroller.top)
        \/ scroller.top \in Scrollable(recordCount) /\ RowsRemoved(start, end)

\* the scroller after processRenderQueue.  It calls the debounced
\* updateViewport; adjustHeights resizes the scroll filler, and a scroller left
\* beyond its new extent moves back and emits scroll
processed(s, queue) ==
    [s EXCEPT
        !.debounce = \/ @
                     \/ queue.updateViewport
                     \/ queue.adjustHeights /\ s.top > maxScroll(recordCount),
        !.top = IF queue.adjustHeights THEN Min(@, maxScroll(recordCount)) ELSE @]

\* the flush of the batch
FlushFrame ==
    /\ Frame_(NoQueue, flush(renderQueue), "none", FALSE)
    /\ scroller' = processed(scroller, renderQueue)

\* the flush of the batch, a listener of the event its callback triggers raises
FlushFrameRaises ==
    /\ renderQueue.callbacks # <<>>
    /\ Frame_(raised(renderQueue), flush(renderQueue), "none", TRUE)
    /\ scroller' = processed(scroller, renderQueue)

\* no call of updateViewport for 100 ms: the debounced function runs and asks
\* for an animation frame
DebounceElapsed ==
    /\ scroller.debounce
    /\ scroller' = [scroller EXCEPT !.debounce = FALSE, !.phase1 = TRUE]
    /\ created' = <<>>
    /\ destroyed' = <<>>
    /\ disposed' = <<>>
    /\ flushed' = <<>>
    /\ lastOp' = Op("debounced", "none", 0)
    /\ UNCHANGED <<summarizing, arrayDataSource, tree, options, dsRows, recordCount, workingSet, viewport, rows,
                   renderQueue, events, view, frames, asked, asynchronous,
                   generation, pending>>

\* the scroller once a pass has run: the first pass schedules the second
\* (clearImmediate, then setImmediate or requestAnimationFrame) unless
\* setViewport raised
afterPass(s, renderExcess, threw) ==
    IF renderExcess THEN [s EXCEPT !.phase2 = FALSE]
    ELSE [s EXCEPT !.phase1 = FALSE, !.phase2 = @ \/ ~threw]

\* the frame or immediate of updateViewportImmediate(renderExcess) runs
Pass(renderExcess) ==
    /\ \E g \in {updateViewportImmediate(Grid, renderExcess, scroller.top)} :
        /\ Install(g, Op(IF renderExcess THEN "phase2" ELSE "phase1",
                         Facing(Grid, scroller.top), 0))
        /\ scroller' = afterPass(scroller, renderExcess, g.threw)
    /\ flushed' = <<>>
    /\ UNCHANGED <<summarizing, arrayDataSource, tree, options, dsRows, renderQueue, events, view, frames, asked,
                   asynchronous>>

Phase1Frame == scroller.phase1 /\ Pass(FALSE)

Phase2Frame == scroller.phase2 /\ Pass(TRUE)

NextLive ==
    \/ Scroll
    \/ Mutation
    \/ FlushFrame
    \/ FlushFrameRaises
    \/ DebounceElapsed
    \/ Phase1Frame
    \/ Phase2Frame

\* frames, immediates and timers that are due do run
Fairness ==
    /\ WF_vars(FlushFrame \/ FlushFrameRaises)
    /\ WF_vars(DebounceElapsed)
    /\ WF_vars(Phase1Frame)
    /\ WF_vars(Phase2Frame)

InitLive == Init

SpecLive == InitLive /\ [][NextLive]_vars /\ Fairness

----------------------------------------------------------------------------
(* Properties *)

\* the index tags of the row nodes, in document order
Tags(r) == [i \in 1..Len(r) |-> r[i].idx]

\* the set a sequence enumerates
Elems(q) == {q[i] : i \in 1..Len(q)}

\* the sequence q lists every element of the set S once, and nothing else
Lists(q, S) == Elems(q) = S /\ Len(q) = Cardinality(S)

\* the indices of a half-open range
Rows(vp) == vp.begin..(vp.end - 1)

\* C1: in every reachable state the number of row nodes materialized in the
\* scrolling row group equals viewport.end - viewport.begin
C1_RowCount == Len(rows) = viewport.end - viewport.begin

\* C2: in every reachable state the index tags, read in document order, are
\* exactly viewport.begin, viewport.begin + 1, ..., viewport.end - 1
C2_TagsAreViewport == Tags(rows) = Range(viewport.begin, viewport.end)

\* C3: every reachable viewport satisfies
\* frozenRowsTop <= viewport.begin <= viewport.end <= recordCount - frozenRowsBottom
C3_ViewportBounds ==
    /\ options.frozenRowsTop <= viewport.begin
    /\ viewport.begin <= viewport.end
    /\ viewport.end <= recordCount - options.frozenRowsBottom

\* every tag of the rows r moved by offset, the nodes themselves staying
Shifted(r, after, offset) ==
    /\ Len(after) = Len(r)
    /\ \A i \in 1..Len(r) : after[i] = [r[i] EXCEPT !.idx = r[i].idx + offset]

\* the viewport vp moved by offset
Moved(vp, offset) == [begin |-> vp.begin + offset, end |-> vp.end + offset]

\* the step is the operation named op
Did(op) == lastOp'.op = op

\* the step creates and destroys no node
NoChurn == created' = <<>> /\ destroyed' = <<>>

\* C4: a deletion [start, end) entirely before the viewport (end <= viewport.begin)
\* decreases viewport.begin, viewport.end and the index tag of every materialized
\* row by end - start, and destroys and creates no node
C4_DeleteBeforeShifts ==
    [][\A start \in Indexes, end \in Indexes :
          Did("rowsremoved") /\ OnRowsRemoved(start, end) /\ end <= viewport.begin
          => /\ viewport' = Moved(viewport, start - end)
             /\ Shifted(rows, rows', start - end)
             /\ NoChurn]_vars

\* a deletion of at least one row before a viewport that holds rows has happened
C4_Witness ==
    /\ lastOp.op = "rowsremoved" /\ lastOp.rel = "before" /\ ~lastOp.threw
    /\ lastOp.len > 0
    /\ rows # <<>>

\* C5: a deletion [start, end) overlapping the viewport [b, e) destroys exactly the
\* min(end, e) - max(start, b) nodes whose tags lie in the intersection and leaves
\* the viewport at {min(b, start), min(b, start) + number of surviving nodes}
C5_DeleteOverlapDestroysIntersection ==
    [][\A start \in Indexes, end \in Indexes :
          /\ Did("rowsremoved") /\ OnRowsRemoved(start, end)
          /\ end > viewport.begin /\ start < viewport.end
          => /\ Len(destroyed') = Min(end, viewport.end) - Max(start, viewport.begin)
             /\ Elems(destroyed') \subseteq
                    Max(start, viewport.begin)..(Min(end, viewport.end) - 1)
             /\ created' = <<>>
             /\ viewport' = [begin |-> Min(viewport.begin, start),
                             end |-> Min(viewport.begin, start) + Len(rows')]]_vars

\* C6: an insertion [start, end) entirely before the viewport, the boundary
\* end = viewport.begin included, increases viewport.begin, viewport.end and the
\* index tag of every materialized row by end - start, and destroys and creates
\* no node
C6_InsertBeforeShifts ==
    [][\A start \in Indexes, end \in Indexes, top \in ScrollTops :
          Did("rowsadded") /\ OnRowsAdded(start, end, top) /\ end <= viewport.begin
          => /\ viewport' = Moved(viewport, end - start)
             /\ Shifted(rows, rows', end - start)
             /\ NoChurn]_vars

\* C7: an insertion or deletion [start, end) entirely after the viewport
\* (start >= viewport.end) leaves viewport.begin, viewport.end, the materialized
\* nodes and their index tags unchanged
C7_AfterViewportUntouched ==
    [][\A start \in Indexes, end \in Indexes :
          /\ start >= viewport.end
          /\ \/ Did("rowsremoved") /\ OnRowsRemoved(start, end)
             \/ Did("rowsadded") /\ \E top \in ScrollTops : OnRowsAdded(start, end, top)
          => /\ viewport' = viewport
             /\ rows' = rows
             /\ NoChurn]_vars

\* C8: _removeRows with end > recordCount or end < start, and _addRows with
\* start > recordCount, raise an error and leave recordCount, the working set, the
\* viewport and the materialized nodes as they were; nothing is queued
C8_MismatchRejected ==
    [][\A start \in Indexes, end \in Indexes :
          \/ Did("rowsremoved") /\ OnRowsRemovedMismatch(start, end)
          \/ Did("rowsadded") /\ OnRowsAddedMismatch(start, end)
          => /\ lastOp'.threw
             /\ UNCHANGED <<recordCount, workingSet, viewport, rows, renderQueue>>
             /\ NoChurn]_vars

\* a rowsremoved event reaching past recordCount was rejected while rows were
\* materialized and a batch was open
C8_Witness ==
    /\ lastOp.op = "rowsremoved" /\ lastOp.rel = "end > recordCount" /\ lastOp.threw
    /\ rows # <<>>
    /\ renderQueue.open

\* C9: setViewport(newRange) with a range overlapping the previous viewport creates
\* exactly the nodes of the indices in newRange and not in the previous viewport,
\* destroys exactly those in the previous viewport and not in newRange, and leaves
\* the others alone; with a disjoint range it removes every previous node and
\* creates exactly the nodes of newRange
C9_SetViewportPatches ==
    [][\A range \in ValidRanges :
          Did("setViewport") /\ SetViewport(range)
          => IF overlap(range, viewport)
             THEN /\ Lists(created', Rows(range) \ Rows(viewport))
                  /\ Lists(destroyed', Rows(viewport) \ Rows(range))
                  /\ \A i \in 1..Len(rows) :
                         rows[i].idx \in Rows(range)
                         => \E j \in 1..Len(rows') : rows'[j] = rows[i]
             ELSE /\ destroyed' = Tags(rows)
                  /\ Lists(created', Rows(range))
                  /\ Tags(rows') = Range(range.begin, range.end)]_vars

\* C10: setViewport(r) with r identical to the current viewport creates no node
\* and removes no node, for r empty or not
C10_SetViewportIdempotent ==
    [][\A range \in ValidRanges :
          Did("setViewport") /\ range = viewport /\ SetViewport(range)
          => NoChurn /\ rows' = rows]_vars

\* setViewport was called with the current, non-empty viewport
C10_Witness ==
    /\ lastOp.op = "setViewport" /\ lastOp.rel = "same" /\ ~lastOp.threw
    /\ rows # <<>>

\* the number of row nodes whose index tag lies outside the range vp
Outside(r, vp) == Cardinality({i \in 1..Len(r) : r[i].idx \notin Rows(vp)})

\* C11: phase 1 (updateViewportImmediate with renderExcess false), the minimal
\* visible range overlapping the current viewport: the new viewport is
\* {min(old.begin, visible.begin), max(old.end, visible.end)} and no existing node
\* is destroyed
C11_Phase1Union ==
    [][\A top \in ScrollTops :
          /\ Did("phase1") /\ UpdateViewportImmediate(FALSE, top)
          /\ overlap(visibleRows(Grid, top), viewport)
          => /\ viewport' = [begin |-> Min(viewport.begin, visibleRows(Grid, top).begin),
                             end |-> Max(viewport.end, visibleRows(Grid, top).end)]
             /\ destroyed' = <<>>]_vars

\* phase 1 has grown a viewport that holds rows by the visible rows it lacked
C11_Witness ==
    /\ lastOp.op = "phase1" /\ lastOp.rel = "overlap" /\ ~lastOp.threw
    /\ created # <<>>
    /\ Len(rows) > Len(created)

\* C12: phase 2 (updateViewportImmediate with renderExcess true) sets the viewport
\* to {max(frozenRowsTop, visible.begin - excess),
\*     min(recordCount - frozenRowsBottom, visible.end + excess)}, destroys exactly
\* the nodes outside that range and creates only nodes not already materialized
C12_Phase2Exact ==
    [][\A top \in ScrollTops :
          Did("phase2") /\ UpdateViewportImmediate(TRUE, top)
          => /\ viewport' =
                    [begin |-> Max(options.frozenRowsTop,
                                   visibleRows(Grid, top).begin
                                   - options.virtualScrollingExcess),
                     end |-> Min(recordCount - options.frozenRowsBottom,
                                 visibleRows(Grid, top).end
                                 + options.virtualScrollingExcess)]
             /\ Elems(destroyed') = Elems(Tags(rows)) \ Rows(viewport')
             /\ Len(destroyed') = Outside(rows, viewport')
             /\ Elems(created') \cap Elems(Tags(rows)) = {}]_vars

\* C13: phase 1, the minimal visible range disjoint from the current viewport:
\* the viewport is replaced outright by the minimal visible range, every previous
\* node is removed and no row between the two ranges is materialized, whatever
\* virtualScrollingExcess
C13_Phase1ReplacesWhenVisibleDisjoint ==
    [][\A top \in ScrollTops :
          /\ Did("phase1") /\ UpdateViewportImmediate(FALSE, top)
          /\ ~overlap(visibleRows(Grid, top), viewport)
          => /\ viewport' = visibleRows(Grid, top)
             /\ destroyed' = Tags(rows)
             /\ Elems(created') \subseteq Rows(visibleRows(Grid, top))]_vars

\* C13, amended: phase 1, the minimal visible range disjoint from the current
\* viewport and, widened by virtualScrollingExcess (rowsInViewWithExcess), still
\* sharing no row with it: the viewport is replaced outright by the minimal visible range, every previous node is
\* removed and no row outside the visible range is materialized
C13_Phase1ReplacesWhenExcessDisjoint ==
    [][\A top \in ScrollTops :
          /\ Did("phase1") /\ UpdateViewportImmediate(FALSE, top)
          /\ ~overlap(visibleRows(Grid, top), viewport)
          /\ ~overlap(viewport, rowsInViewWithExcess(Grid, top))
          => /\ viewport' = visibleRows(Grid, top)
             /\ destroyed' = Tags(rows)
             /\ Elems(created') \subseteq Rows(visibleRows(Grid, top))]_vars

\* phase 1 has dropped a viewport that held rows and rendered the visible rows
C13_Witness ==
    /\ lastOp.op = "phase1" /\ lastOp.rel = "disjoint" /\ ~lastOp.threw
    /\ destroyed # <<>>
    /\ created # <<>>

\* the pixel extent of row x, rows counted from start, shares more than a
\* boundary with [top, bottom] / shares at least a boundary with it
Intersects(x, v) ==
    /\ rowHeight(v.start, x) < v.bottom
    /\ rowHeight(v.start, x + 1) > v.top

Touches(x, v) ==
    /\ rowHeight(v.start, x) <= v.bottom
    /\ rowHeight(v.start, x + 1) >= v.top

\* C18: rowsInView(top, bottom, start, end) returns a range that contains every
\* row index in [start, end) whose pixel extent intersects [top, bottom], and no
\* non-intersecting row other than at most one leading row added for parity
C18_RowsInViewCoversVisible ==
    view.called =>
        /\ \A x \in view.start..(view.end - 1) :
               Intersects(x, view) => x \in Rows(view.result)
        /\ \A x \in Rows(view.result) :
               \/ x \in view.start..(view.end - 1) /\ Touches(x, view)
               \/ x = view.result.begin

\* C19: whenever some row of [start, end) intersects the scroll area, the begin
\* rowsInView returns has the parity of frozenRowsTop and
\* start <= begin <= end of the returned range; when no row intersects,
\* rowsInView returns {begin: 0, end: 0}
C19_RowsInViewParity ==
    view.called =>
        /\ (\E x \in view.start..(view.end - 1) : Intersects(x, view))
           => /\ view.result.begin % 2 = options.frozenRowsTop % 2
              /\ view.start <= view.result.begin
              /\ view.result.begin <= view.result.end
        /\ (\A x \in view.start..(view.end - 1) : ~Touches(x, view))
           => view.result = [begin |-> 0, end |-> 0]

\* the step is one of the five requests on the batch
Requested ==
    lastOp'.op \in {"queueSyncScroll", "queueUpdateViewport",
                    "queueAdjustColumnPositions", "queueAdjustHeights",
                    "queueAfterRender"}

\* the flags of a batch that are set
Flags(q) ==
    {f \in {"syncScroll", "updateViewport", "adjustColumnPositions", "adjustHeights"} :
        q[f]}

\* the batch after is the batch before with a flag set or a callback appended
Merged(before, after) ==
    /\ after.open
    /\ Flags(before) \subseteq Flags(after)
    /\ Cardinality(Flags(after) \ Flags(before)) <= 1
    /\ \/ after.callbacks = before.callbacks
       \/ /\ Len(after.callbacks) = Len(before.callbacks) + 1
          /\ SubSeq(after.callbacks, 1, Len(before.callbacks)) = before.callbacks
          /\ Flags(after) = Flags(before)

\* C15: for any sequence of queue... calls at most one flush is pending at any
\* time: the first request while no batch exists creates the batch and schedules
\* exactly one flush, every later request before that flush only sets a flag or
\* appends a callback on the same batch
C15_OneFlushPending ==
    /\ [](frames <= 1)
    /\ [][Requested =>
             IF renderQueue.open
             THEN frames' = frames /\ Merged(renderQueue, renderQueue')
             ELSE frames' = frames + 1 /\ Merged(NoQueue, renderQueue')]_vars

\* a request has been merged into a batch that already held two flags, one
\* flush pending
C15_Witness ==
    /\ lastOp.op \in {"queueSyncScroll", "queueAdjustColumnPositions"}
    /\ Cardinality(Flags(renderQueue)) >= 3
    /\ frames = 1

\* the positions of the flushed log that hold operations / the operation name
OperationsAt(log) == {i \in 1..Len(log) : log[i].kind = "operation"}
At(log, name) == {i \in OperationsAt(log) : log[i].name = name}

\* every operation named first runs before every operation named second
Before(log, first, second) ==
    \A i \in At(log, first), j \in At(log, second) : i < j

\* C16: a flush runs the enabled operations in the order scroll sync, viewport
\* update, column positions, heights, skipping those whose flag is not set; then
\* it invokes every callback queued on the batch exactly once in registration
\* order, after all operations; then it discards the batch
C16_FlushOrder ==
    [][Did("flush") =>
         /\ \A f \in {"syncScroll", "updateViewport", "adjustColumnPositions",
                       "adjustHeights"} :
                Cardinality(At(flushed', f)) = IF renderQueue[f] THEN 1 ELSE 0
         /\ Before(flushed', "syncScroll", "updateViewport")
         /\ Before(flushed', "updateViewport", "adjustColumnPositions")
         /\ Before(flushed', "adjustColumnPositions", "adjustHeights")
         /\ Before(flushed', "syncScroll", "adjustHeights")
         /\ Before(flushed', "syncScroll", "adjustColumnPositions")
         /\ Before(flushed', "updateViewport", "adjustHeights")
         /\ OperationsAt(flushed') = 1..Cardinality(Flags(renderQueue))
         /\ Len(flushed') = Cardinality(Flags(renderQueue)) + Len(renderQueue.callbacks)
         /\ \A i \in 1..Len(renderQueue.callbacks) :
                flushed'[Cardinality(Flags(renderQueue)) + i]
                    = Called(renderQueue.callbacks[i])
         /\ renderQueue' = NoQueue]_vars

\* a flush has run all four operations and then three callbacks
C16_Witness ==
    /\ lastOp.op = "flush"
    /\ Cardinality(OperationsAt(flushed)) = 4
    /\ Len(flushed) = 7
    /\ ~renderQueue.open

\* the temporary argument a flush gives adjustColumnPositions
GivenTemporary(log) == {log[i].arg : i \in At(log, "adjustColumnPositions")}

\* C17: within one batch, if any queueAdjustColumnPositions request was made with
\* temporary false or omitted, the flush runs adjustColumnPositions with temporary
\* false, whatever the order of the requests; it uses temporary true only if every
\* request of the batch passed true; repeating a request does not change the batch
C17_TemporaryFalseWins ==
    [][/\ Did("flush") /\ asked # {}
          => GivenTemporary(flushed') = {IF asked = {"true"} THEN "true" ELSE "false"}
       /\ \A temporary \in asked :
              /\ Did("queueAdjustColumnPositions") /\ renderQueue.open
              /\ QueueAdjustColumnPositions(temporary)
              => renderQueue' = renderQueue]_vars

\* a flush has run adjustColumnPositions with temporary false for a batch that
\* was asked true, false and with the argument omitted, in some order
C17_Witness ==
    /\ lastOp.op = "flush"
    /\ asked = Temporaries
    /\ GivenTemporary(flushed) = {"false"}

\* what the nodes show: a node still waiting for its fetch has no data-row-id
Shown(rs) == [i \in 1..Len(rs) |-> [rs[i] EXCEPT !.id = Max(rs[i].id, 0)]]

\* the promise p settles in this step
Settles(p) == p \in pending /\ p \notin pending' /\ p.kind # "frame"

\* the wrapped callback of p did nothing: the grid is as it was, but for the
\* records processData, which is not wrapped, puts in the entries of its fetch
Untouched(p) ==
    /\ recordCount' = recordCount
    /\ viewport' = viewport
    /\ Shown(rows') = Shown(rows)
    /\ renderQueue' = renderQueue
    /\ generation' = generation
    /\ pending' = pending \ {p}
    /\ Len(workingSet') = Len(workingSet)
    /\ \A i \in 1..Len(workingSet) :
           \/ workingSet'[i] = workingSet[i]
           \/ p.kind = "getData" /\ workingSet[i] < 0 /\ FetchOf(workingSet[i]) = p.no

\* the wrapped callback of p ran: renderData's callback took the record count
\* and emptied the viewport, populateRows tagged the nodes of its fetch that
\* are in the viewport and have a record
Executed(p) ==
    /\ p.kind = "recordCount" =>
           /\ recordCount' = p.end
           /\ rows' = <<>>
           /\ generation' = generation + 1
    /\ p.kind = "getData" =>
           \A i \in Awaiting(Grid, p) :
               /\ CreatedAt(rows[i], p) >= viewport.begin
               /\ CreatedAt(rows[i], p) < viewport.end
               /\ OffsetOf(rows[i].id) < Len(p.data)
               => rows'[i].id = p.data[OffsetOf(rows[i].id) + 1]

\* C14: a callback wrapped by the data subscription queue before a reset of the
\* subscriptions (dataloaded, or the reset inside renderData's callback) does
\* not run when its promise settles after the reset: record count, working
\* set, viewport and nodes are left alone; a callback whose promise settles
\* with no reset in between does run
C14_StaleCallbacksDropped ==
    [][\A p \in pending :
          Settles(p) /\ (Did("getData resolved") \/ Did("recordCount resolved"))
          => IF p.gen # generation THEN Untouched(p) ELSE Executed(p)]_vars

C14_Witness ==
    /\ lastOp.op = "getData resolved"
    /\ lastOp.rel = "stale"
    /\ lastOp.len > 0
    /\ \E p \in pending : p.kind = "recordCount"

\* the record id the working set holds at index x: 0 when it holds none
RecordAt(ws, x) == IF x >= 0 /\ x < Len(ws) /\ ws[x + 1] > 0 THEN ws[x + 1] ELSE 0

\* C20: in every reachable state each materialized row node that carries an
\* identity tag (data-row-id) carries the id of the record held in workingSet at
\* the node's current index tag
C20_IdentityTags ==
    \A i \in 1..Len(rows) : rows[i].id > 0 => rows[i].id = RecordAt(workingSet, rows[i].idx)

\* C22: when the data promise of an asynchronous fetch is rejected, the row
\* shells created for that range stay materialized with their index tags and
\* without identity tags, the viewport is unchanged, the error does not
\* propagate, and the batch that is open stays open with its flush scheduled,
\* so that its remaining operations and callbacks still run
C22_RejectedFetchLeavesShells ==
    [][\A p \in pending :
          Did("getData rejected") /\ Settles(p) =>
              /\ Len(rows') = Len(rows)
              /\ \A i \in 1..Len(rows) :
                     /\ rows'[i].idx = rows[i].idx
                     /\ rows'[i].id = IF i \in Awaiting(Grid, p) THEN 0 ELSE rows[i].id
              /\ viewport' = viewport
              /\ recordCount' = recordCount
              /\ ~lastOp'.threw
              /\ renderQueue' = renderQueue
              /\ frames' = frames
              /\ renderQueue.open => frames > 0]_vars

C22_Witness ==
    /\ lastOp.op = "getData rejected"
    /\ lastOp.len > 0
    /\ renderQueue.open
    /\ \E i \in 1..Len(rows) : rows[i].id = 0

\* frozen-column configurations: the parts (left, middle, right) a row has
Parts == 1..3

\* the ids rowsDisposed was handed by the last operation on a group of k parts:
\* every destroyRows is called once per part
Reported(k) ==
    [i \in 1..(k * Len(disposed)) |-> disposed[((i - 1) \div k) + 1]]

\* how often the id x occurs in the ids of the hook calls selected by field
Occurrences(calls, field, x) ==
    LET RECURSIVE count(_)
        count(n) ==
            IF n = 0 THEN 0
            ELSE count(n - 1)
                 + Cardinality({j \in 1..Len(calls[n][field]) : calls[n][field][j] = x})
    IN  count(Len(calls))

RowsDisposedOf(calls) == SelectSeq(calls, LAMBDA c : c.hook = "rowsDisposed")

\* C24: whenever row nodes leave the scrolling group (setViewport eviction, the
\* disjoint clear-and-rebuild, or a mutation), the rowsDisposed hook is invoked
\* with the identifiers of exactly the freed rows, each freed row being
\* reported exactly once, for every frozen-column configuration
C24_DisposedExactlyOnce ==
    \A k \in Parts : \A x \in 0..MaxId :
        Occurrences(RowsDisposedOf(Reported(k)), "ids", x)
            = Occurrences(disposed, "gone", x)

\* the calls that need the record count
Queries == {"getRecordCount", "viewRange", "updateViewportImmediate", "setViewport"}

\* C23: getRecordCount raises an error in every state in which recordCount has
\* not yet been set by renderData; consequently viewRange,
\* updateViewportImmediate and setViewport fail rather than compute a range
\* when invoked before the record count is known
C23_UnknownRecordCountRaises ==
    [][recordCount < 0 /\ lastOp'.op \in Queries =>
          /\ lastOp'.threw
          /\ viewport' = viewport
          /\ rows' = rows]_vars

\* renderData has completed: no dataloaded event is waiting for its renderData
\* and no renderData for its record count
Completed == \A p \in pending : p.kind = "getData"

\* C21: after renderData has completed, through any sequence of fetches,
\* insertions and deletions, workingSet.length equals recordCount, and every
\* working-set entry that holds a record holds it at the index the data source
\* currently assigns to that record
C21_WorkingSetAligned ==
    Completed =>
        /\ Len(workingSet) = recordCount
        /\ \A i \in 1..Len(workingSet) :
               workingSet[i] > 0 => i <= Len(dsRows) /\ dsRows[i] = workingSet[i]

\* ---- the tree data source ----

Parent(n) ==
    IF \E p \in TreeNodes : \E i \in 1..Len(children(p)) : children(p)[i] = n
    THEN CHOOSE p \in TreeNodes : \E i \in 1..Len(children(p)) : children(p)[i] = n
    ELSE 0

RECURSIVE Ancestors(_)
Ancestors(n) == IF Parent(n) = 0 THEN {} ELSE {Parent(n)} \cup Ancestors(Parent(n))

Depth(n) == Cardinality(Ancestors(n))

\* the position of a node among its siblings
Pos(n) ==
    LET among == IF Parent(n) = 0 THEN getRootNodes ELSE children(Parent(n))
    IN  CHOOSE i \in 1..Len(among) : among[i] = n

\* the node itself or its ancestor at depth d
Branch(n, d) == CHOOSE a \in Ancestors(n) \cup {n} : Depth(a) = d

\* a comes before b in the pre-order of the tree
Precedes(a, b) ==
    \/ a \in Ancestors(b)
    \/ \E d \in 0..Min(Depth(a), Depth(b)) :
           /\ Branch(a, d) # Branch(b, d)
           /\ Parent(Branch(a, d)) = Parent(Branch(b, d))
           /\ Pos(Branch(a, d)) < Pos(Branch(b, d))

Visible(n) == Ancestors(n) \subseteq tree.expandedById

\* C25: after load and any sequence of expand, collapse, toggle, expandAll and
\* expandToLevel, the view holds exactly the nodes all of whose ancestors are
\* expanded, once each, in pre-order, each at the level of its depth
C25_ViewIsFlattenedTree ==
    /\ Len(tree.view) = Cardinality({n \in TreeNodes : Visible(n)})
    /\ \A n \in TreeNodes : Visible(n) => \E i \in 1..Len(tree.view) : tree.view[i].id = n
    /\ \A i \in 1..Len(tree.view) : tree.view[i].level = Depth(tree.view[i].id)
    /\ \A i, j \in 1..Len(tree.view) :
           i < j => Precedes(tree.view[i].id, tree.view[j].id)

\* a node was collapsed above an expanded one, which stays expanded out of view
C25_Witness ==
    /\ tree.last = "collapse"
    /\ \E n \in tree.expandedById : ~Visible(n) /\ hasChildren(n)
    /\ Len(tree.view) >= 3

\* ---- filtering ----

RECURSIVE preorder(_, _)
preorder(T, nodes) ==
    IF nodes = <<>> THEN <<>>
    ELSE <<Head(nodes)>> \o preorder(T, T.nodes[Head(nodes)].children)
         \o preorder(T, Tail(nodes))

ParentIn(T, n) ==
    IF \E p \in DOMAIN T.nodes : \E i \in 1..Len(T.nodes[p].children) : T.nodes[p].children[i] = n
    THEN CHOOSE p \in DOMAIN T.nodes :
             \E i \in 1..Len(T.nodes[p].children) : T.nodes[p].children[i] = n
    ELSE 0

RECURSIVE AncestorsIn(_, _)
AncestorsIn(T, n) ==
    IF ParentIn(T, n) = 0 THEN {} ELSE {ParentIn(T, n)} \cup AncestorsIn(T, ParentIn(T, n))

\* n does not match an exclusive filter and has no ancestor matching one
Passes(T, n, settings) ==
    \A m \in {n} \cup AncestorsIn(T, n) : ~Excluded(T, m, settings)

Survives(T, n, settings) ==
    /\ Passes(T, n, settings)
    /\ \/ Of(settings, "inclusive") = {}
       \/ \E m \in {n} \cup AncestorsIn(T, n) : Included(T, m, settings)
       \/ \E m \in DOMAIN T.nodes :
              n \in AncestorsIn(T, m) /\ Passes(T, m, settings) /\ Included(T, m, settings)

IdsOf(v) == [i \in 1..Len(v) |-> v[i].id]

C27_InsertOverlapRelabels ==
    [][\A start \in Indexes, end \in Indexes, top \in ScrollTops :
          /\ Did("rowsadded") /\ OnRowsAdded(start, end, top)
          /\ end > viewport.begin /\ start < viewport.end
          => /\ \A i \in 1..Len(rows) :
                    IF rows[i].idx < start
                    THEN \E j \in 1..Len(rows') : rows'[j] = rows[i]
                    ELSE \/ \E j \in 1..Len(rows') :
                               rows'[j] = [rows[i] EXCEPT !.idx = @ + (end - start)]
                         \/ \E k \in 1..Len(destroyed') : destroyed'[k] = rows[i].idx
             /\ \A k \in 1..Len(destroyed') : destroyed'[k] >= start
             /\ \A k \in 1..Len(created') : created'[k] >= start /\ created'[k] < end
             /\ viewport' = [begin |-> viewport.begin,
                             end |-> viewport.begin + Len(rows')]
             /\ Tags(rows') = Range(viewport.begin, viewport.begin + Len(rows'))]_vars

\* ---- the viewport after the last event ----

\* the range phase 2 aims at where the scroller is now
Settled == viewport = rowsInViewWithExcess(Grid, scroller.top)

\* C28: once no further scroll event or mutation arrives, the viewport
\* eventually equals the visible range widened by virtualScrollingExcess and
\* clamped to [frozenRowsTop, recordCount - frozenRowsBottom] and stays equal to
\* it; every phase 1 is followed by a phase 2 and every mutation by a viewport
\* update
C28_ViewportSettles ==
    /\ <>[]Settled
    /\ (lastOp.op = "phase1" /\ ~lastOp.threw) ~> (lastOp.op = "phase2")
    /\ (lastOp.op \in {"rowsadded", "rowsremoved"} /\ ~lastOp.threw)
         ~> (lastOp.op \in {"phase1", "phase2"})

\* ---- the flush when a callback raises or makes a request ----

\* the batch q holds the request r
Holds(q, r) ==
    /\ q.open
    /\ CASE r = "queueUpdateViewport" -> q.updateViewport
         [] r = "queueAdjustHeights" -> q.adjustHeights
         [] r = "queueAfterRender" ->
                \E i \in 1..Len(q.callbacks) : q.callbacks[i] = "viewchanged"

\* the callbacks the items of a flush invoked
Invoked(done) == SelectSeq(done, LAMBDA item : item.kind = "callback")

\* C29: every callback passed to queueAfterRender is eventually invoked exactly
\* once and every flag set is eventually executed by some flush, also when the
\* request is made while a flush is in progress: a batch that holds requests has
\* its flush scheduled, a flush invokes the callbacks of its batch once each, and
\* a request a callback makes during a flush, after the operations have run, is
\* held by a batch whose flush is scheduled once the flush is over
C29_RequestsAreServed ==
    /\ [](renderQueue.open => frames > 0)
    /\ [][Did("flush") /\ ~lastOp'.threw
             => Invoked(flushed') = [i \in 1..Len(renderQueue.callbacks) |->
                                        Called(renderQueue.callbacks[i])]]_vars
    /\ [][Did("flush") /\ lastOp'.rel \in InFlush
             => Holds(renderQueue', lastOp'.rel) /\ frames' > 0]_vars

\* C30: after every flush the batch is discarded, so that the next request opens
\* a new batch and schedules a new flush, also when an operation or a callback
\* the flush runs raises
C30_BatchDiscarded ==
    /\ [][Did("flush") => renderQueue' = NoQueue]_vars
    /\ [][lastOp.op = "flush" /\ Requested
             => frames' = frames + 1 /\ Merged(NoQueue, renderQueue')]_vars

----------------------------------------------------------------------------
(* Fetches that all resolve, with no dataloaded event in between *)

NextResolving ==
    \/ Flush
    \/ \E renderExcess \in BOOLEAN, top \in ScrollTops :
            UpdateViewportImmediate(renderExcess, top)
    \/ \E start \in Indexes, end \in Indexes : OnRowsRemoved(start, end)
    \/ \E start \in Indexes, end \in Indexes, top \in ScrollTops :
            OnRowsAdded(start, end, top)
    \/ \E p \in pending : GetDataResolved(p)

\* every promise of getData is resolved in the end; a flush that is scheduled
\* runs
SpecResolving ==
    /\ InitAsync
    /\ [][NextResolving]_vars
    /\ WF_vars(\E p \in pending : GetDataResolved(p))
    /\ WF_vars(Flush)

\* the fetch whose populateRows will still visit the node r
AwaitedBy(r) == {p \in pending : p.kind = "getData" /\ r.id < 0 /\ p.no = FetchOf(r.id)}

\* C31: if every data fetch eventually resolves and no dataset reset occurs,
\* every row node that remains materialized eventually receives its identity
\* tag and cells, also when rowsadded or rowsremoved events are handled between
\* the fetch request and its resolution: a materialized node either has its
\* tag or is still awaited by the populateRows of an outstanding fetch
C31_ShellsArePopulated ==
    \A i \in 1..Len(rows) : rows[i].id > 0 \/ AwaitedBy(rows[i]) # {}

\* the grid is settled on the data source: no dataloaded event waits for its
\* renderData and the record count the grid holds is the data source's
SettledOn(ds) == Completed /\ recordCount = Len(ds) /\ Len(workingSet) = recordCount

\* C32: whenever the grid handles a rowsadded or rowsremoved event, its
\* recordCount, working set and viewport are those of a fully settled state
\* matching the data source immediately before the mutation (the grid's
\* recordCount is the data source's record count before the change), in every
\* interleaving of dataloaded events, the deferred renderData callback and
\* mutation events
C32_MutationsSeeSettledState ==
    [][Did("rowsremoved") \/ Did("rowsadded") => SettledOn(dsRows)]_vars

\* the state of the grid a render shows: record count, working set, viewport
\* and materialized nodes
rendering == <<recordCount, workingSet, viewport, rows>>

C34_Phase1RunsWhileScrolling ==
    [][Did("scroll") => scroller'.phase1]_vars

\* ---- the events of the tree data source ----

\* the list after is the list before with end - start entries put in at [start, end)
Inserted(before, after, start, end) ==
    /\ Len(after) = Len(before) + (end - start)
    /\ \A i \in 1..Len(before) :
           IF i <= start THEN after[i] = before[i] ELSE after[i + (end - start)] = before[i]

\* the event e describes the change it reports and is well-formed
Describes(e) ==
    /\ e.name = "rowsadded" => Inserted(e.before, e.after, e.start, e.end)
    /\ e.name = "rowsremoved" => Inserted(e.after, e.before, e.start, e.end)
    /\ 0 < e.start /\ e.start <= e.end
    /\ e.end <= Max(Len(e.before), Len(e.after))

RowEvents == {"rowsadded", "rowsremoved"}

\* C35: each rowsadded event emitted by expand and each rowsremoved event
\* emitted by collapse describes exactly the change of the view: the view after
\* the call is the view before with the entries at [start, end) inserted,
\* respectively removed, so that the record count changes by end - start; the
\* event is emitted after the view is updated and before treetoggled, and
\* 0 < start <= end <= max(record count before, record count after)
C35_EventsDescribeViewChange ==
    /\ [](\A k \in 1..Len(tree.emitted) :
            tree.emitted[k].name \in RowEvents =>
                /\ Describes(tree.emitted[k])
                /\ k < Len(tree.emitted)
                /\ tree.emitted[k + 1].name = "treetoggled"
                /\ tree.emitted[k + 1].state = (tree.emitted[k].name = "rowsadded")
                /\ tree.emitted[k + 1].after = tree.emitted[k].after)
    /\ [][tree'.last \in {"expand", "collapse", "toggle"} =>
            \A k \in 1..Len(tree'.emitted) :
                tree'.emitted[k].name \in RowEvents =>
                    /\ tree'.emitted[k].before = Listed(tree.view)
                    /\ tree'.emitted[k].after = Listed(tree'.view)
                    /\ tree'.emitted[k].name =
                          (IF tree'.emitted[k + 1].id \in tree'.expandedById
                           THEN "rowsadded" ELSE "rowsremoved")]_vars

\* expand has shown the children of a row and, below one of them that was left
\* expanded, a grandchild
C35_Witness ==
    /\ tree.last = "expand"
    /\ Len(tree.emitted) = 2
    /\ tree.emitted[1].name = "rowsadded"
    /\ tree.emitted[1].end - tree.emitted[1].start = 3

\* the row the call before this state toggled, 0 when it toggled none
ToggledRow(t) ==
    IF t.emitted # <<>> /\ t.emitted[Len(t.emitted)].name = "treetoggled"
    THEN t.emitted[Len(t.emitted)].id ELSE 0

\* C36: for a row that is in the view and collapsed, expand(row) followed by
\* collapse(row) restores the view to the same sequence of records and levels,
\* and the rowsremoved range equals the preceding rowsadded range; likewise
\* toggle(rowId) applied twice restores the view and the expanded state of
\* every row
C36_ExpandCollapseRoundTrip ==
    /\ [][/\ tree.last = "expand" /\ tree'.last = "collapse"
          /\ Len(tree.emitted) = 2 /\ tree.emitted[1].name = "rowsadded"
          /\ ToggledRow(tree') = ToggledRow(tree)
          => /\ Listed(tree'.view) = tree.found.view
             /\ Len(tree'.emitted) = 2
             /\ tree'.emitted[1].name = "rowsremoved"
             /\ tree'.emitted[1].start = tree.emitted[1].start
             /\ tree'.emitted[1].end = tree.emitted[1].end]_vars
    /\ [][/\ tree.last = "toggle" /\ tree'.last = "toggle"
          /\ ToggledRow(tree') = ToggledRow(tree)
          => /\ ToggledRow(tree) # 0
             /\ Listed(tree'.view) = tree.found.view
             /\ tree'.expandedById = tree.found.expandedById]_vars

\* collapse has undone an expand that had shown a grandchild as well
C36_Witness ==
    /\ tree.last = "collapse"
    /\ Len(tree.emitted) = 2
    /\ tree.emitted[1].name = "rowsremoved"
    /\ tree.emitted[1].end - tree.emitted[1].start = 3
    /\ Len(tree.found.view) = Len(tree.view) + 3

\* the row is an entry of the view v
InView(v, row) == \E i \in 1..Len(v) : v[i].id = row

\* C37: expand on a row that is already expanded and collapse on a row that is
\* not expanded change nothing and emit no event; expand or collapse on a row
\* that is not currently in the view (an ancestor is collapsed) changes only
\* that row's expanded flag, leaves the view and the record count unchanged,
\* emits no rowsadded or rowsremoved and emits exactly one treetoggled event
C37_NoOpAndHiddenToggles ==
    [][tree'.last \in {"expand", "collapse"} =>
        \A row \in {tree'.found.arg} :
            /\ (row \in tree.expandedById) = (tree'.last = "expand") =>
                   /\ tree'.emitted = <<>>
                   /\ tree'.view = tree.view
                   /\ tree'.expandedById = tree.expandedById
            /\ (row \in tree.expandedById) # (tree'.last = "expand")
               /\ ~InView(tree.view, row) =>
                   /\ tree'.expandedById =
                          (IF tree'.last = "expand" THEN tree.expandedById \cup {row}
                           ELSE tree.expandedById \ {row})
                   /\ tree'.view = tree.view
                   /\ Len(tree'.emitted) = 1
                   /\ tree'.emitted[1].name = "treetoggled"
                   /\ tree'.emitted[1].id = row
                   /\ tree'.emitted[1].state = (tree'.last = "expand")]_vars

\* a row below a collapsed ancestor has been expanded
C37_Witness ==
    /\ tree.last = "expand"
    /\ tree.found.arg \in tree.expandedById
    /\ tree.found.arg \notin tree.found.expandedById
    /\ ~Visible(tree.found.arg)
    /\ hasChildren(tree.found.arg)
    /\ Len(tree.emitted) = 1

----------------------------------------------------------------------------
(* SummarizingDataSource: the rows of a delegate followed by a summary row *)

\* 'summary_row', the id getSummaryRow gives the summary row; the records of
\* the delegate have the ids 1, 2, ...
SUMMARY_ROW_ID == 0

\* the most rows the delegate holds
MaxRows == 3

\* an argument that is not given
undefined == 0 - 1

\* the delegate: a data source whose getData is view.slice(start || 0, end)
delegateGetData(rs, start, end) ==
    IF end = undefined THEN SliceFrom(rs, Max(start, 0))
    ELSE Slice(rs, Max(start, 0), end)

\* getSummaryRow(): the row the summary factory makes, its id set
getSummaryRow == SUMMARY_ROW_ID

\* recordCount(): utils.map(delegate.recordCount(), rc => rc + 1)
summaryRecordCount(s) == Len(s.delegate) + 1

\* getData(start, end) on a delegate that answers without promises
summaryGetData(s, start, end) ==
    With(Len(s.delegate), LAMBDA rc :
        IF start = rc
        THEN <<getSummaryRow>>
        ELSE IF (start = undefined /\ end = undefined) \/ (end # undefined /\ end > rc)
        THEN delegateGetData(s.delegate, start, end) \o <<getSummaryRow>>
        ELSE delegateGetData(s.delegate, start, end))

\* an event of a data source
Event(name, start, end) == [name |-> name, start |-> start, end |-> end]

\* the events the data source triggers when its delegate triggers event: the
\* constructor listens to dataloaded and datachanged
passedOn(event) ==
    IF event.name \in {"dataloaded", "datachanged"} THEN <<event>> ELSE <<>>

\* a listener that keeps the record count up to date from the events, as the
\* grid does: it reads recordCount() on dataloaded and moves its count by
\* end - start on rowsadded and rowsremoved
RECURSIVE listened(_, _, _)
listened(count, triggered, s) ==
    IF triggered = <<>> THEN count
    ELSE listened(CASE Head(triggered).name = "dataloaded" -> summaryRecordCount(s)
                    [] Head(triggered).name = "rowsadded" ->
                           count + (Head(triggered).end - Head(triggered).start)
                    [] Head(triggered).name = "rowsremoved" ->
                           count - (Head(triggered).end - Head(triggered).start)
                    [] OTHER -> count,
                  Tail(triggered), s)

\* everything but the SummarizingDataSource
notSummarizing ==
    <<options, dsRows, recordCount, workingSet, viewport, rows, renderQueue, created,
      destroyed, disposed, lastOp, events, view, frames, flushed, asked, asynchronous,
      generation, pending, scroller, tree, arrayDataSource>>

\* the delegate now holds the rows rs and triggers event
DelegateTriggers(name, rs, event) ==
    /\ summarizing' =
          With([summarizing EXCEPT !.delegate = rs, !.last = name,
                                   !.emitted = passedOn(event)], LAMBDA s :
              [s EXCEPT !.count = listened(summarizing.count, s.emitted, s)])
    /\ UNCHANGED notSummarizing

\* the ids of the records the delegate does not hold
Absent(rs) == {id \in 1..MaxRows : \A i \in 1..Len(rs) : rs[i] # id}

\* the delegate loads n rows
DelegateLoaded ==
    \E n \in 0..MaxRows :
        DelegateTriggers("dataloaded", Range(1, n + 1), Event("dataloaded", 0, 0))

\* a row appears in the delegate at index start
DelegateRowsAdded ==
    \E start \in 0..Len(summarizing.delegate), id \in Absent(summarizing.delegate) :
        DelegateTriggers("rowsadded",
                         SubSeq(summarizing.delegate, 1, start) \o <<id>>
                         \o SubSeq(summarizing.delegate, start + 1, Len(summarizing.delegate)),
                         Event("rowsadded", start, start + 1))

\* the rows [start, end) of the delegate go
DelegateRowsRemoved ==
    \E start \in 0..Len(summarizing.delegate), end \in 0..Len(summarizing.delegate) :
        /\ start < end
        /\ DelegateTriggers("rowsremoved",
                            SubSeq(summarizing.delegate, 1, start)
                            \o SubSeq(summarizing.delegate, end + 1, Len(summarizing.delegate)),
                            Event("rowsremoved", start, end))

\* a value of a row of the delegate changes
DelegateDataChanged ==
    /\ summarizing.delegate # <<>>
    /\ summarizing.last # "datachanged"
    /\ DelegateTriggers("datachanged", summarizing.delegate, Event("datachanged", 0, 0))

\* getData(start, end), or getData() without arguments
SummaryGetData ==
    \E start \in {undefined} \cup 0..(MaxRows + 1), end \in {undefined} \cup 0..(MaxRows + 1) :
        /\ (start = undefined) = (end = undefined)
        /\ start <= end /\ end <= summaryRecordCount(summarizing)
        /\ summarizing' = [summarizing EXCEPT !.last = "getData", !.emitted = <<>>,
                              !.start = start, !.end = end,
                              !.result = summaryGetData(summarizing, start, end)]
        /\ UNCHANGED notSummarizing

NextSummary ==
    \/ DelegateLoaded
    \/ DelegateRowsAdded
    \/ DelegateRowsRemoved
    \/ DelegateDataChanged
    \/ SummaryGetData

\* new SummarizingDataSource(delegate, summaryFactory) on a delegate that has
\* loaded, and a listener that has read its record count
InitSummary ==
    /\ Rendered(InitRecords)
    /\ options = [frozenRowsTop |-> 0, frozenRowsBottom |-> 0,
                  virtualScrollingExcess |-> 0]
    /\ tree = NoTree /\ scroller = AtRest /\ arrayDataSource = NoArray
    /\ \E n \in 0..MaxRows :
           summarizing = [NoSummary EXCEPT !.delegate = Range(1, n + 1), !.count = n + 1]

SpecSummary == InitSummary /\ [][NextSummary]_vars

\* the rows of the data source: those of the delegate, then the summary row
Summarized(s) == s.delegate \o <<SUMMARY_ROW_ID>>

\* C38: for a SummarizingDataSource over a delegate with rc records,
\* recordCount() is rc + 1 and, for all 0 <= start <= end <= rc + 1 as well as
\* for getData() without arguments, getData(start, end) returns exactly the
\* elements [start, end) of the delegate's rows followed by the summary row, so
\* that the result has length end - start, also for the empty range
\* start = end = rc
C38_GetDataIsSliceWithSummary ==
    /\ summaryRecordCount(summarizing) = Len(Summarized(summarizing))
    /\ summarizing.last = "getData" =>
           IF summarizing.start = undefined
           THEN summarizing.result = Summarized(summarizing)
           ELSE /\ summarizing.result =
                       SubSeq(Summarized(summarizing), summarizing.start + 1, summarizing.end)
                /\ Len(summarizing.result) = summarizing.end - summarizing.start

\* C39: a consumer that tracks the record count of a SummarizingDataSource
\* only through the events it emits (re-reading recordCount on dataloaded,
\* adding or subtracting end - start on rowsadded and rowsremoved) always holds
\* a count equal to recordCount(), for every sequence of dataloaded, rowsadded,
\* rowsremoved and datachanged events emitted by the delegate
C39_ListenerCountIsRecordCount ==
    summarizing.count = summaryRecordCount(summarizing)

----------------------------------------------------------------------------
(* ArrayDataSource (src/web/tests/filtering.js): rows held in an array *)

RowIds == 1..2
Keys == {"a", "b"}
Values == 0..1

\* the ids setValue and getRecordById are called with: one of them no row has
AskedIds == RowIds \cup {3}

\* the arrays the data source is constructed on
DataSets ==
    {<<>>} \cup {<<[id |-> 1, a |-> 0, b |-> 0]>>}
           \cup {<<[id |-> 1, a |-> 0, b |-> 0], [id |-> 2, a |-> 1, b |-> 0]>>}

isReady(a) == a.ready

\* $(this).trigger(name, ...): ready is what isReady() answers a listener
Triggered(a, name, id, key) ==
    [a EXCEPT !.emitted = Append(@, [name |-> name, id |-> id, key |-> key,
                                     ready |-> isReady(a)])]

\* load()
arrayLoad(a) ==
    Triggered([a EXCEPT !.ready = TRUE, !.timer = FALSE], "dataloaded", 0, "")

\* new ArrayDataSource(data, delay)
ArrayDataSource(data, delay) ==
    IF delay THEN [NoArray EXCEPT !.data = data, !.timer = TRUE, !.last = "new"]
    ELSE arrayLoad([NoArray EXCEPT !.data = data, !.last = "new"])

\* assertReady() throws
NotReady(a) == [a EXCEPT !.threw = "Datasource not ready yet"]

\* the method body F runs once assertReady() has passed
Ready(a, F(_)) == IF ~isReady(a) THEN NotReady(a) ELSE F(a)

Returns(a, result) == [a EXCEPT !.result = result]

\* the index of the first row with the id, 0 when there is none
rowOf(data, id) ==
    IF \E x \in 1..Len(data) : data[x].id = id
    THEN CHOOSE x \in 1..Len(data) :
             data[x].id = id /\ \A y \in 1..(x - 1) : data[y].id # id
    ELSE 0

arrayRecordCount(a) == Ready(a, LAMBDA r : Returns(r, <<Len(r.data)>>))

getRowByIndex(a, idx) ==
    Ready(a, LAMBDA r :
        Returns(r, IF idx >= 0 /\ idx < Len(r.data) THEN <<r.data[idx + 1]>> ELSE <<>>))

getRecordById(a, id) ==
    Ready(a, LAMBDA r :
        Returns(r, IF rowOf(r.data, id) > 0 THEN <<r.data[rowOf(r.data, id)]>> ELSE <<>>))

\* getData(start, end): 0 and undefined alike count as not given
arrayGetData(a, start, end) ==
    Ready(a, LAMBDA r :
        Returns(r, IF start <= 0 /\ end <= 0 THEN r.data
                   ELSE Slice(r.data, Max(start, 0), IF end <= 0 THEN Len(r.data) ELSE end)))

\* this.getRecordById(rowId)[key] = value, and the event
written(a, rowId, key, value) ==
    IF rowOf(a.data, rowId) = 0
    THEN [a EXCEPT !.threw = "TypeError"]
    ELSE Triggered([a EXCEPT !.data[rowOf(a.data, rowId)] =
                        IF key = "a" THEN [@ EXCEPT !.a = value] ELSE [@ EXCEPT !.b = value]],
                   "datachanged", rowId, key)

\* a setValue that does not call assertReady
setValue_Unchecked(a, rowId, key, value) == written(a, rowId, key, value)

setValue(a, rowId, key, value) ==
    Ready(a, LAMBDA r : written(r, rowId, key, value))

\* everything but the ArrayDataSource
notArray ==
    <<options, dsRows, recordCount, workingSet, viewport, rows, renderQueue, created,
      destroyed, disposed, lastOp, events, view, frames, flushed, asked, asynchronous,
      generation, pending, scroller, tree, summarizing>>

\* the source as a call finds it
entered(name, args) ==
    [arrayDataSource EXCEPT !.emitted = <<>>, !.threw = "nothing", !.result = <<>>,
                            !.last = name, !.args = args]

\* the timer of the delayed load fires
TimerFires ==
    /\ arrayDataSource.timer
    /\ arrayDataSource' = arrayLoad(entered("load", <<>>))
    /\ UNCHANGED notArray

CallRecordCount ==
    /\ arrayDataSource' = arrayRecordCount(entered("recordCount", <<>>))
    /\ UNCHANGED notArray

CallGetRowByIndex ==
    \E idx \in 0..2 :
        /\ arrayDataSource' = getRowByIndex(entered("getRowByIndex", <<idx>>), idx)
        /\ UNCHANGED notArray

CallGetRecordById ==
    \E id \in AskedIds :
        /\ arrayDataSource' = getRecordById(entered("getRecordById", <<id>>), id)
        /\ UNCHANGED notArray

CallGetData ==
    \E start \in {undefined} \cup 0..2, end \in {undefined} \cup 0..2 :
        /\ arrayDataSource' = arrayGetData(entered("getData", <<start, end>>), start, end)
        /\ UNCHANGED notArray

CallSetValue ==
    \E rowId \in AskedIds, key \in Keys, value \in Values :
        /\ arrayDataSource' =
              setValue(entered("setValue", <<rowId, key, value>>), rowId, key, value)
        /\ UNCHANGED notArray

NextArray ==
    \/ TimerFires
    \/ CallRecordCount
    \/ CallGetRowByIndex
    \/ CallGetRecordById
    \/ CallGetData
    \/ CallSetValue

InitArray ==
    /\ Rendered(InitRecords)
    /\ options = [frozenRowsTop |-> 0, frozenRowsBottom |-> 0,
                  virtualScrollingExcess |-> 0]
    /\ tree = NoTree /\ scroller = AtRest /\ summarizing = NoSummary
    /\ \E data \in DataSets, delay \in BOOLEAN :
           arrayDataSource = ArrayDataSource(data, delay)

SpecArray == InitArray /\ [][NextArray]_vars

\* the step is a call of one of the methods that assert readiness
Asserting == arrayDataSource'.last \in {"recordCount", "getRowByIndex", "getRecordById",
                                        "getData", "setValue"}

\* while the source is not ready the call raises and changes nothing
RaisesUnready ==
    [][Asserting /\ ~isReady(arrayDataSource) =>
           /\ arrayDataSource'.threw = "Datasource not ready yet"
           /\ arrayDataSource'.data = arrayDataSource.data
           /\ arrayDataSource'.emitted = <<>>
           /\ arrayDataSource'.result = <<>>
           /\ arrayDataSource'.ready = arrayDataSource.ready
           /\ arrayDataSource'.timer = arrayDataSource.timer]_vars

\* ready before dataloaded is emitted: at once without delay, when the timer
\* fires with delay; and ready for good
ReadyBeforeLoaded ==
    /\ [](\A k \in 1..Len(arrayDataSource.emitted) : arrayDataSource.emitted[k].ready)
    /\ [](arrayDataSource.last = "new" =>
             /\ isReady(arrayDataSource) = ~arrayDataSource.timer
             /\ isReady(arrayDataSource) =
                   (arrayDataSource.emitted = <<[name |-> "dataloaded", id |-> 0, key |-> "",
                                                 ready |-> TRUE]>>))
    /\ [](arrayDataSource.last = "load" =>
             /\ isReady(arrayDataSource)
             /\ Len(arrayDataSource.emitted) = 1
             /\ arrayDataSource.emitted[1].name = "dataloaded")
    /\ [][isReady(arrayDataSource) => isReady(arrayDataSource')]_vars

\* the record count stays; the rows are as before but for the value of key in
\* the first row with the id
Wrote(before, after, rowId, key, value) ==
    /\ Len(after) = Len(before)
    /\ \A x \in 1..Len(before) :
           IF x = rowOf(before, rowId)
           THEN after[x] = (IF key = "a" THEN [before[x] EXCEPT !.a = value]
                            ELSE [before[x] EXCEPT !.b = value])
           ELSE after[x] = before[x]

\* the call wrote the value and then emitted one datachanged event for the row
\* id and key
SetsValue ==
    /\ arrayDataSource'.threw = "nothing"
    /\ Wrote(arrayDataSource.data, arrayDataSource'.data, arrayDataSource'.args[1],
             arrayDataSource'.args[2], arrayDataSource'.args[3])
    /\ arrayDataSource'.emitted =
          <<[name |-> "datachanged", id |-> arrayDataSource'.args[1],
             key |-> arrayDataSource'.args[2], ready |-> TRUE]>>

\* C40 as claimed: recordCount, getRowByIndex, getRecordById, getData and
\* setValue raise 'Datasource not ready yet' and change nothing while isReady()
\* is false; isReady() becomes true before the dataloaded event is emitted and
\* never becomes false again; setValue on a ready source writes the value and
\* then emits exactly one datachanged event naming that row id and key
C40_SetValueAlwaysWrites ==
    /\ RaisesUnready
    /\ ReadyBeforeLoaded
    /\ [][arrayDataSource'.last = "setValue" /\ isReady(arrayDataSource) => SetsValue]_vars

\* C40: as claimed, where setValue on a ready source is given the id of a row
\* of the data; given an id no row has, it raises a TypeError, writes nothing
\* and emits nothing
C40_ReadinessAndSetValue ==
    /\ RaisesUnready
    /\ ReadyBeforeLoaded
    /\ [][arrayDataSource'.last = "setValue" /\ isReady(arrayDataSource) =>
             IF rowOf(arrayDataSource.data, arrayDataSource'.args[1]) > 0
             THEN SetsValue
             ELSE /\ arrayDataSource'.threw = "TypeError"
                  /\ arrayDataSource'.data = arrayDataSource.data
                  /\ arrayDataSource'.emitted = <<>>]_vars

\* a source made with a delay has become ready, and setValue has changed the
\* value of a key of its second row
C40_Witness ==
    /\ arrayDataSource.last = "setValue"
    /\ arrayDataSource.threw = "nothing"
    /\ arrayDataSource.args = <<2, "b", 1>>
    /\ Len(arrayDataSource.data) = 2
    /\ arrayDataSource.data[2].b = 1
    /\ Len(arrayDataSource.emitted) = 1

====
